---- MODULE Spec2Model ----
(***************************************************************************)
(* State-machine model of the session recorder (src/src/data_recorder.py,  *)
(* class DataRecorder) as it is driven by the application                  *)
(* (src/main.py: process_frame, on_game_event, start_session,              *)
(* stop_session), and of the frame source (src/src/camera_manager.py,      *)
(* class CameraManager) with its acquisition thread.                       *)
(*                                                                         *)
(* Python values are modelled as follows.                                  *)
(*   dict            a function whose DOMAIN is the set of keys            *)
(*   list, tuple     a sequence                                            *)
(*   None            0 for the scalar attributes (times, handles);         *)
(*                   the empty dict / empty tuple for optional readings    *)
(*                   (None, {} and () are all falsy in the `if x:` tests   *)
(*                   of the code, which is the only way they are used)     *)
(*   time.time()     an integer number of ticks, an input of each handler  *)
(*                   that reads the clock (see Times)                      *)
(***************************************************************************)
EXTENDS Integers, Sequences, FiniteSets, TLC

(***************************************************************************)
(* Bounds of the model.                                                    *)
(***************************************************************************)
\* largest value of the wall clock
MaxTime == 2
\* add_frame_data calls accepted in one run
MaxFrames == 2
\* add_game_event calls accepted in one run
MaxEvents == 1
\* start_session calls in one run
MaxStarts == 2
\* largest configured value of max_frames_in_memory
MaxCap == 1
\* CameraManager.start calls in one run
MaxCamStarts == 2
\* successful device reads of the acquisition threads in one run
MaxReads == 2
\* get_frame calls that return a frame in one run
MaxGets == 2
\* error dialogs start_session shows in one run
MaxReported == 1
\* largest frame_count an EmotionAnalyzer reaches
MaxAnalyzed == 31
\* longest series handed to the peak finders
MaxSeries == 4
\* add_frame_data and add_game_event calls of a session under analysis
MaxCalls == 4

VARIABLES
    session_active,        \* self.session_active
    session_start_time,    \* self.session_start_time (0 = None)
    session_data,          \* self.session_data
    video_writer,          \* self.video_writer: index into writers (0 = None)
    video_filename,        \* self.video_filename (0 = None)
    export_video,          \* self.export_video
    export_raw_frames,     \* self.export_raw_frames
    max_frames_in_memory,  \* self.max_frames_in_memory
    writers,               \* every cv2.VideoWriter object created so far
    snapshot,              \* the dict last returned by stop_session
    returned,              \* the value that dict had when it was returned
    ignored,               \* the call just made was dropped by the recorder
    calls,                 \* add_frame_data calls accepted by this session
    failed,                \* a frame-handling error was caught this session
    starts,                \* start_session calls so far
    nframes,               \* add_frame_data calls accepted so far
    nevents,               \* add_game_event calls accepted so far
    pc,                    \* main thread's position inside a handler
    afd,                   \* local relative_timestamp of the add_frame_data call in progress
    cap,                   \* CameraManager.cap: index into devices (0 = None)
    is_running,            \* CameraManager.is_running
    current_frame,         \* CameraManager.current_frame: index into frames (0 = None)
    capture_thread,        \* CameraManager.capture_thread: index into threads (0 = None)
    devices,               \* the cv2.VideoCapture objects the manager has created
    frames,                \* the frame arrays (numpy objects) and their content
    threads,               \* the acquisition threads started so far
    held,                  \* the arrays get_frame returned, kept by the caller
    camPc,                 \* main thread's position inside CameraManager.stop
    lastStart,             \* outcome of the last CameraManager.start call
    got,                   \* what the last get_frame call returned
    newest,                \* latest device frame a get_frame call has returned
    reads,                 \* successful reads of the acquisition threads so far
    runBase,               \* value of reads at the last successful start
    yielding,              \* the last device read of an acquisition thread succeeded
    camStarts,             \* CameraManager.start calls so far
    failedAfter,           \* whether a device read has failed, and the value of reads at the last failure
    series,                \* the series handed to the peak finder
    result,                \* what the last analytics call returned
    ea,                    \* the EmotionAnalyzer object
    eaOut,                 \* what its process_frame returned: last processed frame, last call
    is_recording,          \* FaceItAnalysisSystem.is_recording
    ticks,                 \* process_frame callbacks pending in the Tk event queue
    timers,                \* stop_session callbacks pending in the Tk event queue, oldest first:
                           \* each is the number of the recorder session whose start armed it
    game,                  \* the state of self.current_game
    appPc,                 \* main thread's position inside a handler of the application
    reported,              \* the error dialogs start_session has shown
    sg,                    \* a StressClickGame object, its canvas and its pending Tk timers
    emitted                \* how often that game has called game_event_callback, by event type

recVars == << session_active, session_start_time, session_data,
              video_writer, video_filename, export_video, export_raw_frames,
              max_frames_in_memory, writers, snapshot, returned, ignored, calls,
              failed, starts, nframes, nevents, pc, afd >>

camVars == << cap, is_running, current_frame, capture_thread, devices, frames,
              threads, held, camPc, lastStart, got, newest, reads, runBase,
              yielding, camStarts >>

camGhost == << failedAfter >>

anaVars == << series, result >>

eaVars == << ea, eaOut >>

appVars == << is_recording, ticks, timers, game, appPc, reported >>

gameVars == << sg, emitted >>

vars == << recVars, camVars, camGhost, anaVars, eaVars, appVars, gameVars >>

\* what an operation of the recorder, or of the frame source, leaves alone
notRecorder == << camVars, camGhost, anaVars, eaVars, appVars, gameVars >>

notCamera == << recVars, anaVars, eaVars, appVars, gameVars >>

\* A, an operation of the recorder, performed on its own
Recorder(A) == A /\ UNCHANGED notRecorder

\* A, an operation of the frame source, performed on its own
Camera(A) == A /\ UNCHANGED notCamera

None == 0

(***************************************************************************)
(* Python dicts.                                                           *)
(***************************************************************************)
EmptyDict == [k \in {} |-> 0]

Put(d, k, v) == [x \in DOMAIN d \cup {k} |-> IF x = k THEN v ELSE d[x]]

\* dict.update(e)
Update(d, e) == [x \in DOMAIN d \cup DOMAIN e |-> IF x \in DOMAIN e THEN e[x] ELSE d[x]]

\* `if x:` on a dict or a tuple
Truthy(x) == DOMAIN x # {}

(***************************************************************************)
(* Inputs.                                                                 *)
(***************************************************************************)
\* frame argument: None, an image, or an array cv2.resize rejects (empty)
FrameKinds == {"none", "image", "bad"}

\* what EmotionAnalyzer.process_frame hands to add_frame_data:
\*   "none"     None (analyzer off, no face, analysis error)
\*   "full"     {'emotions': .., 'action_units': .., 'timestamp': ..}
\*   "current"  self.current_emotions, returned for a skipped frame
EmotionKinds == {"none", "full", "current"}

EmotionReading(kind, t) ==
    CASE kind = "none" -> EmptyDict
      [] kind = "full" -> [emotions |-> [happiness |-> 1],
                           action_units |-> [AU12 |-> 1],
                           timestamp |-> t]
      [] kind = "current" -> [happiness |-> 1]

\* what EyeTracker.process_frame returns: None or (x, y)
GazeKinds == {"none", "point"}

GazeReading(kind) == IF kind = "none" THEN << >> ELSE << 60, 10 >>

EventTypes == {"game_start", "score_update"}

EventData(type) ==
    CASE type = "score_update" -> [score |-> 1]
      [] type = "game_end" -> [final_score |-> 1]
      [] OTHER -> [duration |-> 30]

(***************************************************************************)
(* DataRecorder.__init__                                                   *)
(***************************************************************************)
InitialSessionData ==
    [ session_info |-> EmptyDict,
      video_frames |-> << >>,
      emotions     |-> << >>,
      gaze_points  |-> << >>,
      game_events  |-> << >>,
      timestamps   |-> << >>,
      frame_count  |-> 0 ]


\* no add_frame_data call is in progress
NoLocals == [rt |-> 0]

(***************************************************************************)
(* The dict returned by stop_session is self.session_data.copy(): a new    *)
(* top-level dict whose values are the SAME objects (the session_info dict *)
(* and the five lists) as those of self.session_data, plus its own copy of *)
(* the integer frame_count.  The variable snapshot is the first dict       *)
(* returned since the last start_session, which its caller still holds     *)
(* (main.py keeps it in self.session_data and hands it to                  *)
(* ResultsVisualizer).  start_session binds self.session_data to new       *)
(* objects: from then on no recorder operation can reach the objects of a  *)
(* dict returned earlier, and the model stops following that dict.         *)
(***************************************************************************)
NoSnapshot == [given |-> FALSE, frame_count |-> 0]

\* dict.copy() of self.session_data, line 89
ShallowCopy(sd) == [given |-> TRUE, frame_count |-> sd.frame_count]

\* the value a holder of the returned dict reads from it
SnapshotValue == [session_data EXCEPT !.frame_count = snapshot.frame_count]

(***************************************************************************)
(* CameraManager.__init__.  Objects are kept in sequences and referred to  *)
(* by their index, so that two references to one object differ from two    *)
(* equal objects: devices holds the state of each cv2.VideoCapture         *)
(* ("open", "unopened" or "released"), frames the content of each frame    *)
(* array (the number of the device read that produced it, 0 once the       *)
(* caller has drawn over it), threads the acquisition threads.             *)
(***************************************************************************)
NoFrameReturned == [called |-> FALSE, frame |-> None]

CameraInit ==
    /\ cap = None
    /\ is_running = FALSE
    /\ current_frame = None
    /\ capture_thread = None
    /\ devices = << >>
    /\ frames = << >>
    /\ threads = << >>
    /\ held = << >>
    /\ camPc = "idle"
    /\ lastStart = "never"
    /\ got = NoFrameReturned
    /\ newest = 0
    /\ reads = 0
    /\ runBase = 0
    /\ yielding = FALSE
    /\ camStarts = 0
    /\ failedAfter = [failed |-> FALSE, reads |-> 0]

(***************************************************************************)
(* The analytics are functions of the session record; series is the input  *)
(* of a direct call of the peak finder and result the value last returned. *)
(***************************************************************************)
NoResult == [op |-> "none", value |-> << >>]

AnalyticsInit ==
    /\ series = << >>
    /\ result = NoResult

(***************************************************************************)
(* EmotionAnalyzer.__init__.  detector is whether self.detector is set;     *)
(* current_emotions None is the empty dict, as for the readings.           *)
(***************************************************************************)
NewAnalyzer == [detector |-> FALSE, running |-> FALSE, frame_count |-> 0,
                current_emotions |-> EmptyDict]

\* no process_frame call yet
NoAnalyzerOutput == [called |-> FALSE, skipped |-> FALSE,
                     last |-> EmptyDict, processed |-> EmptyDict]

AnalyzerInit ==
    /\ ea = NewAnalyzer
    /\ eaOut = NoAnalyzerOutput

(***************************************************************************)
(* StressClickGame.__init__ (stress_click_game.py 12-47) and setup_ui.     *)
(* targets is the ids of self.targets, ovals the target items on the       *)
(* canvas, texts whether the canvas holds an item that is not a target (a  *)
(* feedback or final text), canvas whether the canvas widget exists,       *)
(* removals the targets whose remove_target callback is pending, and the   *)
(* three timer fields whether the callback of that handle is pending.      *)
(* next is the number of the next target; clicks and other_clicks count    *)
(* the clicks handled and those that found an item that is not a target.   *)
(***************************************************************************)
GameEventNames == {"game_start", "target_spawn", "score_update", "target_miss",
                   "target_hit", "difficulty_change", "game_end"}

NewGame == [started |-> FALSE, running |-> FALSE, score |-> 0, hits |-> 0,
            misses |-> 0, level |-> 1, targets |-> {}, ovals |-> {},
            texts |-> TRUE, canvas |-> TRUE, removals |-> {},
            spawn_timer |-> FALSE, game_timer |-> FALSE, update_timer |-> FALSE,
            next |-> 1, clicks |-> 0, other_clicks |-> 0]

GameInit ==
    /\ sg = NewGame
    /\ emitted = [e \in GameEventNames |-> 0]

(***************************************************************************)
(* FaceItAnalysisSystem.__init__                                           *)
(***************************************************************************)
AppInit ==
    /\ is_recording = FALSE
    /\ ticks = 0
    /\ timers = << >>
    /\ game = "none"
    /\ appPc = "idle"
    /\ reported = 0

RecorderInit ==
    /\ session_active = FALSE
    /\ session_start_time = None
    /\ session_data = InitialSessionData
    /\ video_writer = None
    /\ video_filename = None
    /\ export_video \in BOOLEAN
    /\ export_raw_frames \in (IF export_video THEN {FALSE} ELSE BOOLEAN)
    /\ max_frames_in_memory \in 1..MaxCap
    /\ writers = << >>
    /\ snapshot = NoSnapshot
    /\ returned = InitialSessionData
    /\ ignored = "none"
    /\ calls = 0
    /\ failed = FALSE
    /\ starts = 0
    /\ nframes = 0
    /\ nevents = 0
    /\ pc = "idle"
    /\ afd = NoLocals

Init ==
    /\ RecorderInit
    /\ CameraInit
    /\ AnalyticsInit
    /\ AnalyzerInit
    /\ AppInit
    /\ GameInit

(***************************************************************************)
(* time.time(): the wall clock, read by start_session (line 41),           *)
(* stop_session (line 75), process_frame (main.py line 348) and            *)
(* on_game_event (main.py line 412).  Each read is an input of the         *)
(* handler.  The wall clock normally advances between two reads, and it is *)
(* set back when the system clock is adjusted, so a read may return any    *)
(* value, also one below an earlier read.                                  *)
(***************************************************************************)
Times == 1..MaxTime

(***************************************************************************)
(* DataRecorder.start_session and setup_video_recording                    *)
(***************************************************************************)
\* the reset dict of start_session
NewSessionData(now) ==
    [ session_info |-> [start_time |-> now, start_datetime |-> now, session_id |-> now],
      video_frames |-> << >>,
      emotions     |-> << >>,
      gaze_points  |-> << >>,
      game_events  |-> << >>,
      timestamps   |-> << >>,
      frame_count  |-> 0 ]

\* outcomes of setup_video_recording:
\*   "opened"    cv2.VideoWriter constructed and opened
\*   "unopened"  cv2.VideoWriter constructed, isOpened() false (no exception)
\*   "raised"    os.makedirs raised; the except clause sets video_writer None
SinkOutcomes == {"opened", "unopened", "raised"}

SetupVideoRecording(outcome, now) ==
    IF outcome = "raised"
    THEN /\ video_writer' = None
         /\ UNCHANGED << video_filename, writers >>
    ELSE /\ video_filename' = now
         /\ writers' = Append(writers, IF outcome = "opened" THEN "open" ELSE "unopened")
         /\ video_writer' = Len(writers) + 1

\* lines 44-60: everything after the first two assignments.  The file name is
\* built from datetime.now() (line 99), taken here as the session's start time.
StartSessionReset(outcome, start) ==
    /\ session_data' = NewSessionData(start)
    /\ snapshot' = NoSnapshot
    /\ returned' = InitialSessionData
    /\ calls' = 0
    /\ failed' = FALSE
    /\ IF export_video
       THEN SetupVideoRecording(outcome, start)
       ELSE UNCHANGED << video_writer, video_filename, writers >>

\* start_session() when time.time() returns now
StartSessionAt(now) ==
    /\ pc = "idle"
    /\ starts < MaxStarts
    /\ starts' = starts + 1
    /\ session_active' = TRUE
    /\ session_start_time' = now
    /\ \E outcome \in SinkOutcomes : StartSessionReset(outcome, session_start_time')
    /\ ignored' = "none"
    /\ UNCHANGED << export_video, export_raw_frames,
                    max_frames_in_memory, nframes, nevents, pc, afd >>

StartSession == \E now \in Times : StartSessionAt(now)

(***************************************************************************)
(* DataRecorder.stop_session                                               *)
(***************************************************************************)
\* lines 74-79
FinalizeSessionInfo(info, now) ==
    IF session_start_time # None
    THEN Put(Put(Put(info, "end_time", now),
                 "duration", now - session_start_time),
             "end_datetime", now)
    ELSE info

\* the handle dropped without release()
Release_Dropped(ws, w) == ws

\* line 83: self.video_writer.release()
Release(ws, w) == [ws EXCEPT ![w] = "released"]

\* lines 82-86
FinalizeVideo(info) ==
    IF video_writer # None /\ video_filename # None
    THEN Put(info, "video_file", video_filename)
    ELSE info

\* stop_session() when time.time() returns now
StopSessionAt(now) ==
    /\ pc = "idle"
    /\ session_active' = FALSE
    /\ session_data' = [session_data EXCEPT
                          !.session_info = FinalizeVideo(FinalizeSessionInfo(@, now))]
    /\ IF video_writer # None
       THEN /\ writers' = Release(writers, video_writer)
            /\ video_writer' = None
       ELSE UNCHANGED << writers, video_writer >>
    /\ IF snapshot.given
       THEN UNCHANGED << snapshot, returned >>
       ELSE /\ snapshot' = ShallowCopy(session_data')
            /\ returned' = session_data'
    /\ ignored' = "none"
    /\ UNCHANGED << session_start_time, video_filename, export_video,
                    export_raw_frames, max_frames_in_memory, calls, failed,
                    starts, nframes, nevents, pc, afd >>

StopSession == \E now \in Times : StopSessionAt(now)

(***************************************************************************)
(* DataRecorder.add_frame_data                                             *)
(***************************************************************************)
\* line 128 (and 188)
RelativeTimestamp(timestamp) ==
    IF session_start_time # None THEN timestamp - session_start_time ELSE 0

\* line 131
StoreTimestamp(sd, rt) == [sd EXCEPT !.timestamps = Append(@, rt)]

\* a counter that follows the frames retained in memory instead of the calls
IncFrameCount_Retained(sd) == [sd EXCEPT !.frame_count = Len(sd.video_frames) + 1]

\* line 132
IncFrameCount(sd) == [sd EXCEPT !.frame_count = @ + 1]

\* lines 135-141 raise: cv2.resize rejects the array, or the write raises
FrameRaises(frame, wfail) ==
    \/ frame = "bad"
    \/ frame = "image" /\ video_writer # None /\ wfail

\* the cap tested with <= instead of <
StoreFrame_OffByOne(sd, rt, frame) ==
    IF /\ frame # "none"
       /\ export_raw_frames
       /\ Len(sd.video_frames) <= max_frames_in_memory
    THEN [sd EXCEPT !.video_frames = Append(@, [timestamp |-> rt, frame |-> "resized"])]
    ELSE sd

\* lines 144-149
StoreFrame(sd, rt, frame) ==
    IF /\ frame # "none"
       /\ export_raw_frames
       /\ Len(sd.video_frames) < max_frames_in_memory
    THEN [sd EXCEPT !.video_frames = Append(@, [timestamp |-> rt, frame |-> "resized"])]
    ELSE sd

\* lines 152-166
StoreEmotion(sd, rt, emotions) ==
    IF Truthy(emotions)
    THEN LET entry == [timestamp |-> rt, frame_number |-> sd.frame_count]
             withEmotions ==
                 IF "emotions" \in DOMAIN emotions
                 THEN Update(entry, emotions["emotions"])
                 ELSE entry
             withAUs ==
                 IF "action_units" \in DOMAIN emotions
                 THEN Update(withEmotions, emotions["action_units"])
                 ELSE withEmotions
         IN  [sd EXCEPT !.emotions = Append(@, withAUs)]
    ELSE sd

\* lines 169-177
StoreGaze(sd, rt, gaze_point) ==
    IF Truthy(gaze_point)
    THEN [sd EXCEPT !.gaze_points =
             Append(@, [timestamp |-> rt, frame_number |-> sd.frame_count,
                        x |-> gaze_point[1], y |-> gaze_point[2],
                        confidence |-> 1])]
    ELSE sd

\* lines 134-180: what follows the counter increment, inside the try
AfterCount(sd, rt, frame, wfail, emotions, gaze_point) ==
    IF FrameRaises(frame, wfail)
    THEN sd
    ELSE StoreGaze(StoreEmotion(StoreFrame(sd, rt, frame), rt, emotions), rt, gaze_point)

\* lines 126-180: the body of an accepted call
AddFrameDataBody(sd, timestamp, frame, wfail, emotions, gaze_point) ==
    LET rt == RelativeTimestamp(timestamp)
    IN  AfterCount(IncFrameCount(StoreTimestamp(sd, rt)), rt, frame, wfail,
                   emotions, gaze_point)

\* lines 123-124
FrameCallAccepted == session_active

\* add_frame_data(now, frame, emotions, gaze_point): one whole call
AddFrameDataOnce(now, frame, wfail, emotions, gaze_point) ==
    /\ pc = "idle"
    /\ IF FrameCallAccepted
       THEN /\ session_data' = AddFrameDataBody(session_data, now, frame, wfail,
                                                emotions, gaze_point)
            /\ ignored' = "none"
            /\ calls' = calls + 1
            /\ nframes' = nframes + 1
            /\ failed' = (failed \/ FrameRaises(frame, wfail))
       ELSE /\ ignored' = "add_frame_data"
            /\ UNCHANGED << session_data, calls, nframes, failed >>
    /\ UNCHANGED << session_active, session_start_time, video_writer,
                    video_filename, export_video, export_raw_frames,
                    max_frames_in_memory, writers, snapshot, returned, starts,
                    nevents, pc, afd >>

\* a call counted against the bound of the model
AddFrameDataWith(now, frame, wfail, emotions, gaze_point) ==
    /\ nframes < MaxFrames
    /\ AddFrameDataOnce(now, frame, wfail, emotions, gaze_point)

\* the call with the readings of the given kinds
AddFrameDataCall(now, frame, wfail, ek, gk) ==
    AddFrameDataWith(now, frame, wfail, EmotionReading(ek, now), GazeReading(gk))

\* lines 138-141: video_writer.write is reached with a frame cv2.resize
\* accepts and a writer, and may raise then
WriteOutcomes(frame) ==
    IF frame = "image" /\ video_writer # None THEN BOOLEAN ELSE {FALSE}

\* main.py process_frame, lines 348-365:
\* add_frame_data(time.time(), frame, emotions, gaze_point)
AddFrameData ==
    \E now \in Times, frame \in FrameKinds, ek \in EmotionKinds, gk \in GazeKinds :
       \E wfail \in WriteOutcomes(frame) :
          AddFrameDataCall(now, frame, wfail, ek, gk)

(***************************************************************************)
(* DataRecorder.add_game_event                                             *)
(***************************************************************************)
\* the event tagged with the frame to come instead of the current count
AddGameEventBody_TagsNext(sd, timestamp, event_type, event_data) ==
    [sd EXCEPT !.game_events =
        Append(@, [timestamp    |-> RelativeTimestamp(timestamp),
                   type         |-> event_type,
                   data         |-> event_data,
                   frame_number |-> sd.frame_count + 1])]

\* the event stamped with the wall-clock time it was given
AddGameEventBody_Absolute(sd, timestamp, event_type, event_data) ==
    [sd EXCEPT !.game_events =
        Append(@, [timestamp    |-> timestamp,
                   type         |-> event_type,
                   data         |-> event_data,
                   frame_number |-> sd.frame_count])]

\* lines 188-197
AddGameEventBody(sd, timestamp, event_type, event_data) ==
    [sd EXCEPT !.game_events =
        Append(@, [timestamp    |-> RelativeTimestamp(timestamp),
                   type         |-> event_type,
                   data         |-> event_data,
                   frame_number |-> sd.frame_count])]

\* the guard of lines 184-185 left out
EventCallAccepted_NoGuard == TRUE

\* lines 184-185
EventCallAccepted == session_active

\* add_game_event(now, event_type, EventData(event_type)): one whole call.
\* The call reads and appends in one step: it is the other caller's handler
\* that is taken apart in the threaded specification.
AddGameEventOnce(now, event_type) ==
    /\ IF EventCallAccepted
       THEN /\ session_data' = AddGameEventBody(session_data, now, event_type,
                                                EventData(event_type))
            /\ nevents' = nevents + 1
            /\ ignored' = "none"
       ELSE /\ ignored' = "add_game_event"
            /\ UNCHANGED << session_data, nevents >>
    /\ UNCHANGED << session_active, session_start_time, video_writer,
                    video_filename, export_video, export_raw_frames,
                    max_frames_in_memory, writers, snapshot, returned, calls,
                    failed, starts, nframes, pc, afd >>

\* a call counted against the bound of the model
AddGameEventCall(now, event_type) ==
    /\ nevents < MaxEvents
    /\ AddGameEventOnce(now, event_type)

\* main.py on_game_event, lines 412-413: add_game_event(time.time(), type, data)
AddGameEvent ==
    \E now \in Times, event_type \in EventTypes : AddGameEventCall(now, event_type)

(***************************************************************************)
(* The application: every handler runs to completion on the Tk main loop   *)
(* (process_frame, the games' callbacks and stop_session are all scheduled *)
(* with root.after).                                                       *)
(***************************************************************************)
Next ==
    \/ Recorder(StartSession)
    \/ Recorder(StopSession)
    \/ Recorder(AddFrameData)
    \/ Recorder(pc = "idle" /\ AddGameEvent)

Spec == Init /\ [][Next]_vars


(***************************************************************************)
(* The recorder called from two threads: the main thread runs              *)
(* start_session, stop_session and add_frame_data, and a game running on   *)
(* a thread of its own calls add_game_event.  The recorder takes no lock,  *)
(* so the interpreter may switch threads between any two statements of a   *)
(* handler of the main thread: add_frame_data and start_session are taken  *)
(* apart at the statements that write the shared state.                    *)
(***************************************************************************)
\* add_frame_data, lines 123-131
T_StoreTimestamp ==
    /\ pc = "idle"
    /\ nframes < MaxFrames
    /\ IF FrameCallAccepted
       THEN \E now \in Times :
               /\ afd' = [rt |-> RelativeTimestamp(now)]
               /\ session_data' = StoreTimestamp(session_data, RelativeTimestamp(now))
               /\ pc' = "afd_count"
               /\ ignored' = "none"
               /\ calls' = calls + 1
               /\ nframes' = nframes + 1
       ELSE /\ ignored' = "add_frame_data"
            /\ UNCHANGED << session_data, calls, nframes, pc, afd >>
    /\ UNCHANGED << session_active, session_start_time, video_writer,
                    video_filename, export_video, export_raw_frames,
                    max_frames_in_memory, writers, snapshot, returned, failed,
                    starts, nevents >>

\* add_frame_data, line 132
T_IncFrameCount ==
    /\ pc = "afd_count"
    /\ session_data' = IncFrameCount(session_data)
    /\ pc' = "afd_rest"
    /\ UNCHANGED << session_active, session_start_time, video_writer,
                    video_filename, export_video, export_raw_frames,
                    max_frames_in_memory, writers, snapshot, returned, ignored,
                    calls, failed, starts, nframes, nevents, afd >>

\* add_frame_data, lines 134-180.  The other arguments of the call are first
\* read here, so they are drawn here.
T_AfterCount ==
    /\ pc = "afd_rest"
    /\ \E now \in Times, frame \in FrameKinds, wfail \in BOOLEAN,
          ek \in EmotionKinds, gk \in GazeKinds :
          /\ session_data' = AfterCount(session_data, afd.rt, frame, wfail,
                                        EmotionReading(ek, now), GazeReading(gk))
          /\ failed' = (failed \/ FrameRaises(frame, wfail))
    /\ pc' = "idle"
    /\ afd' = NoLocals
    /\ UNCHANGED << session_active, session_start_time, video_writer,
                    video_filename, export_video, export_raw_frames,
                    max_frames_in_memory, writers, snapshot, returned, ignored,
                    calls, starts, nframes, nevents >>

\* start_session, lines 40-41
T_StartActivate ==
    /\ pc = "idle"
    /\ starts < MaxStarts
    /\ starts' = starts + 1
    /\ session_active' = TRUE
    /\ \E now \in Times : session_start_time' = now
    /\ pc' = "start_reset"
    /\ ignored' = "none"
    /\ UNCHANGED << session_data, video_writer, video_filename, export_video,
                    export_raw_frames, max_frames_in_memory, writers, snapshot,
                    returned, calls, failed, nframes, nevents, afd >>

\* start_session, lines 44-63
T_StartReset ==
    /\ pc = "start_reset"
    /\ \E outcome \in SinkOutcomes : StartSessionReset(outcome, session_start_time)
    /\ pc' = "idle"
    /\ UNCHANGED << session_active, session_start_time, export_video,
                    export_raw_frames, max_frames_in_memory, ignored, starts,
                    nframes, nevents, afd >>

NextThreads ==
    \/ Recorder(T_StoreTimestamp)
    \/ Recorder(T_IncFrameCount)
    \/ Recorder(T_AfterCount)
    \/ Recorder(T_StartActivate)
    \/ Recorder(T_StartReset)
    \/ Recorder(StopSession)
    \/ Recorder(AddGameEvent)

SpecThreads == Init /\ [][NextThreads]_vars


(***************************************************************************)
(* CameraManager.start, _start_camera and _auto_detect_camera              *)
(***************************************************************************)
\* what happens inside _start_camera:
\*   "ok"        the device opens and the test read yields a frame
\*   "unopened"  cv2.VideoCapture returns, isOpened() is false (line 30)
\*   "noframe"   the device opens, the test read yields nothing (line 35)
\*   "raised"    cv2.VideoCapture raises (line 51), self.cap is not assigned
StartOutcomes == {"ok", "unopened", "noframe", "raised"}

\* cap.release()
ReleaseDevice(ds, d) == [ds EXCEPT ![d] = "released"]

\* a thread object created at line 45, before it has run
NewThread == [pc |-> "test", dev |-> None, frame |-> None]

\* lines 44-46 are reached only past the two early returns
LaunchesThread(outcome) == outcome = "ok"

\* _start_camera(camera_index), lines 26-53
StartCamera(outcome) ==
    /\ IF outcome = "raised"
       THEN UNCHANGED << cap, devices >>
       ELSE /\ cap' = Len(devices) + 1
            /\ devices' =
                 CASE outcome = "ok" -> Append(devices, "open")
                   [] outcome = "unopened" -> Append(devices, "unopened")
                   [] outcome = "noframe" ->
                        ReleaseDevice(Append(devices, "open"), Len(devices) + 1)
    /\ IF LaunchesThread(outcome)
       THEN /\ is_running' = TRUE
            /\ threads' = Append(threads, NewThread)
            /\ capture_thread' = Len(threads) + 1
            /\ runBase' = reads
       ELSE UNCHANGED << is_running, threads, capture_thread, runBase >>

\* start(camera_index) with an explicit index, lines 20-21
StartIndex ==
    /\ camPc = "idle"
    /\ camStarts < MaxCamStarts
    /\ camStarts' = camStarts + 1
    /\ \E outcome \in StartOutcomes :
          /\ StartCamera(outcome)
          /\ lastStart' = outcome
    /\ UNCHANGED << current_frame, frames, held, camPc, got, newest, reads, yielding >>
    /\ UNCHANGED camGhost

\* range(10), line 60
ProbeCount == 10

\* which devices work: the indices i and j (if below ProbeCount) open and
\* yield a frame, every other index fails in the way failure says
DeviceMap(i, j, failure) ==
    [index \in 0..(ProbeCount - 1) |->
        IF index = i \/ index = j THEN "ok" ELSE failure]

DeviceMaps ==
    { DeviceMap(i, j, failure) :
        i \in 0..ProbeCount, j \in 0..ProbeCount,
        failure \in StartOutcomes \ {"ok"} }

RECURSIVE ProbeFrom(_, _)
\* lines 60-64: the loop from `index` on; the index it stops at, ProbeCount
\* when it runs to its end
ProbeFrom(works, index) ==
    IF index = ProbeCount THEN ProbeCount
    ELSE IF works[index] = "ok" THEN index
    ELSE ProbeFrom(works, index + 1)

\* lines 60-67: the index _auto_detect_camera starts the capture on
FirstProbe(works) == ProbeFrom(works, 0)

\* start() without an index, lines 24 and 55-67: _start_camera is tried on
\* the indices 0, 1, .. until one succeeds.  Each failed probe rebinds
\* self.cap (or, when it raises, leaves it as it is), so the objects of all
\* but the last probe are unreachable when the call returns; the call leaves
\* what its last probe leaves.
StartAutoOn(works) ==
    /\ camPc = "idle"
    /\ camStarts < MaxCamStarts
    /\ camStarts' = camStarts + 1
    /\ LET index == FirstProbe(works)
       IN  StartCamera(IF index < ProbeCount THEN "ok" ELSE works[ProbeCount - 1])
    /\ lastStart' = "auto"
    /\ UNCHANGED << current_frame, frames, held, camPc, got, newest, reads, yielding >>
    /\ UNCHANGED camGhost

StartAuto == \E works \in DeviceMaps : StartAutoOn(works)

(***************************************************************************)
(* CameraManager.stop.  The call sets the flag, joins the acquisition      *)
(* thread for at most two seconds, and releases the device.  The           *)
(* acquisition thread runs while the main thread is inside the call, so    *)
(* the call is taken apart at these three points.                          *)
(***************************************************************************)
\* line 71
Stop_Signal ==
    /\ camPc = "idle"
    /\ is_running' = FALSE
    /\ camPc' = "join"
    /\ UNCHANGED << cap, current_frame, capture_thread, devices, frames,
                    threads, held, lastStart, got, newest, reads, runBase,
                    yielding, camStarts >>
    /\ UNCHANGED camGhost

\* Thread.is_alive()
ThreadAlive(t) == threads[t].pc # "done"

\* lines 73-74: join(timeout=2.0) returns when the thread has ended, or when
\* two seconds have passed.  A turn of the loop that does not read the device
\* takes far less (a copy, or a sleep of 0.01 s), so the timeout passes only
\* while the thread is inside the device read, which blocks for as long as the
\* driver takes.
Stop_Join ==
    /\ camPc = "join"
    /\ (capture_thread # None /\ ThreadAlive(capture_thread))
          => threads[capture_thread].pc = "reading"
    /\ camPc' = "release"
    /\ UNCHANGED << cap, is_running, current_frame, capture_thread, devices,
                    frames, threads, held, lastStart, got, newest, reads,
                    runBase, yielding, camStarts >>
    /\ UNCHANGED camGhost

\* the handle is given up only while the device is open
HoldsHandle_OpenOnly(c) == c # None /\ devices[c] = "open"

\* line 76: if self.cap
HoldsHandle(c) == c # None

\* lines 76-80
Stop_Release ==
    /\ camPc = "release"
    /\ IF HoldsHandle(cap)
       THEN /\ devices' = ReleaseDevice(devices, cap)
            /\ cap' = None
       ELSE UNCHANGED << devices, cap >>
    /\ camPc' = "idle"
    /\ UNCHANGED << is_running, current_frame, capture_thread, frames, threads,
                    held, lastStart, got, newest, reads, runBase, yielding,
                    camStarts >>
    /\ UNCHANGED camGhost

(***************************************************************************)
(* CameraManager._capture_loop, run by each acquisition thread.            *)
(***************************************************************************)
\* line 84: self.is_running and self.cap and self.cap.isOpened()
LoopCondition == is_running /\ cap # None /\ devices[cap] = "open"

\* line 84
Capture_Test(t) ==
    /\ threads[t].pc = "test"
    /\ threads' = [threads EXCEPT ![t].pc = IF LoopCondition THEN "read" ELSE "done"]
    /\ UNCHANGED << cap, is_running, current_frame, capture_thread, devices,
                    frames, held, camPc, lastStart, got, newest, reads, runBase,
                    yielding, camStarts >>
    /\ UNCHANGED camGhost

\* line 85, the call: self.cap is read again.  If stop has set it to None in
\* between, the attribute lookup raises and the thread ends.
Capture_ReadCall(t) ==
    /\ threads[t].pc = "read"
    /\ threads' = IF cap = None
                  THEN [threads EXCEPT ![t].pc = "done"]
                  ELSE [threads EXCEPT ![t].pc = "reading", ![t].dev = cap]
    /\ UNCHANGED << cap, is_running, current_frame, capture_thread, devices,
                    frames, held, camPc, lastStart, got, newest, reads, runBase,
                    yielding, camStarts >>
    /\ UNCHANGED camGhost

\* a failed read ends the loop
AfterFailedRead_Ends == "done"

\* lines 89-90: sleep, then the loop test again
AfterFailedRead == "test"

\* every read is taken for a success
ReadOk_Always(ret) == TRUE

\* line 86: if ret
ReadOk(ret) == ret

\* line 85, the return, and lines 86, 89-90: a device that is open yields a
\* frame or not; a handle that is not open yields nothing.
Capture_ReadReturn(t) ==
    /\ threads[t].pc = "reading"
    /\ \E ret \in BOOLEAN :
          /\ ret => (devices[threads[t].dev] = "open" /\ reads < MaxReads)
          /\ reads' = IF ret THEN reads + 1 ELSE reads
          /\ yielding' = ret
          /\ failedAfter' = IF ret THEN failedAfter
                                  ELSE [failed |-> TRUE, reads |-> reads]
          /\ threads' = [threads EXCEPT
                           ![t].frame = IF ret THEN reads + 1 ELSE None,
                           ![t].pc = IF ReadOk(ret) THEN "store" ELSE AfterFailedRead]
    /\ UNCHANGED << cap, is_running, current_frame, capture_thread, devices,
                    frames, held, camPc, lastStart, got, newest, runBase,
                    camStarts >>

\* lines 87-88: under frame_lock, the slot is bound to a new copy of the frame
\* just read.  get_frame is the only other user of the lock and runs in one
\* step, so the locked region is one step too.
Capture_Store(t) ==
    /\ threads[t].pc = "store"
    /\ frames' = Append(frames, threads[t].frame)
    /\ current_frame' = Len(frames) + 1
    /\ threads' = [threads EXCEPT ![t].pc = "test", ![t].frame = None]
    /\ UNCHANGED << cap, is_running, capture_thread, devices, held, camPc,
                    lastStart, got, newest, reads, runBase, yielding, camStarts >>
    /\ UNCHANGED camGhost

(***************************************************************************)
(* CameraManager.get_frame and its caller                                  *)
(***************************************************************************)
\* the slot's own array is handed out
ReturnedFrame_Alias(fs, f) == f

\* line 95: current_frame.copy() is a new array
ReturnedFrame(fs, f) == Len(fs) + 1

\* line 95: the new array has the content of the slot's array
CopyFrame(fs, f) == Append(fs, fs[f])

\* the larger of two frame numbers
Later(a, b) == IF a >= b THEN a ELSE b

\* get_frame(), lines 92-95
GetFrame ==
    /\ camPc = "idle"
    /\ IF current_frame # None
       THEN /\ Len(held) < MaxGets
            /\ frames' = CopyFrame(frames, current_frame)
            /\ held' = Append(held, ReturnedFrame(frames, current_frame))
            /\ got' = [called |-> TRUE, frame |-> ReturnedFrame(frames, current_frame)]
            /\ newest' = Later(newest, frames[current_frame])
       ELSE /\ got' = [called |-> TRUE, frame |-> None]
            /\ UNCHANGED << frames, held, newest >>
    /\ UNCHANGED << cap, is_running, current_frame, capture_thread, devices,
                    threads, camPc, lastStart, reads, runBase, yielding, camStarts >>
    /\ UNCHANGED camGhost

\* the caller of get_frame (main.py process_frame) writes into the i-th array
\* it was given
MutateFrame(i) ==
    /\ camPc = "idle"
    /\ frames[held[i]] # 0
    /\ frames' = [frames EXCEPT ![held[i]] = 0]
    /\ UNCHANGED << cap, is_running, current_frame, capture_thread, devices,
                    threads, held, camPc, lastStart, got, newest, reads, runBase,
                    yielding, camStarts >>
    /\ UNCHANGED camGhost

(***************************************************************************)
(* The frame source: the main thread calls start, stop and get_frame, and  *)
(* the acquisition threads run between any two steps of it.                *)
(***************************************************************************)
InitCamera == Init /\ ~export_video /\ ~export_raw_frames /\ max_frames_in_memory = 1

NextCamera ==
    \/ Camera(StartIndex)
    \/ Camera(StartAuto)
    \/ Camera(Stop_Signal)
    \/ Camera(Stop_Join)
    \/ Camera(Stop_Release)
    \/ Camera(GetFrame)
    \/ \E i \in 1..Len(held) : Camera(MutateFrame(i))
    \/ \E t \in 1..Len(threads) : Camera(Capture_Test(t))
    \/ \E t \in 1..Len(threads) : Camera(Capture_ReadCall(t))
    \/ \E t \in 1..Len(threads) : Camera(Capture_ReadReturn(t))
    \/ \E t \in 1..Len(threads) : Camera(Capture_Store(t))

SpecCamera == InitCamera /\ [][NextCamera]_vars


(***************************************************************************)
(* Properties of the recorder.                                             *)
(***************************************************************************)

\* C1: in a session, after N accepted add_frame_data calls (whatever they
\* carried, and whether or not the frame handling raised), frame_count is N
\* and timestamps holds N entries.
C1_CountsEveryCall ==
    session_active =>
        /\ session_data.frame_count = calls
        /\ Len(session_data.timestamps) = calls

\* a session in which two calls were made and the frame handling of one raised
C1_Witness ==
    /\ session_active
    /\ calls = 2
    /\ failed
    /\ session_data.frame_count = 2

\* C2 (as claimed): add_game_event never runs against a half-done
\* add_frame_data, in which the timestamp is appended and frame_count is not
\* yet incremented.
C2_EventNeverSeesHalfDoneFrame ==
    [][AddGameEvent =>
          Len(session_data.timestamps) = session_data.frame_count]_vars

\* C3 (as claimed): stop_session called while no session is active leaves the
\* session record as it is.
C3_InactiveStopIsNoOp ==
    [][(StopSession /\ ~session_active) => session_data' = session_data]_vars

\* C4 (as claimed): the dict returned by stop_session keeps the value it had
\* when it was returned.
C4_SnapshotImmutable ==
    snapshot.given => SnapshotValue = returned

\* C5: add_frame_data and add_game_event called while no session is active
\* leave session_data unchanged.
C5_InactiveCallsIgnored ==
    [][(~session_active /\ (AddFrameData \/ AddGameEvent))
          => session_data' = session_data]_vars

\* a call was dropped after a session that had recorded frames was stopped
C5_Witness ==
    /\ ~session_active
    /\ ignored # "none"
    /\ session_data.frame_count > 0

\* C6 (as claimed): each entry of timestamps is at least the entry before it.
C6_TimestampsNonDecreasing ==
    \A i \in 2..Len(session_data.timestamps) :
        session_data.timestamps[i] >= session_data.timestamps[i - 1]

\* the frame_number of every entry of a list
FrameNumbers(entries) == { entries[i].frame_number : i \in 1..Len(entries) }

\* C7: every entry of emotions, gaze_points and game_events carries a
\* frame_number that is at most the current frame_count.
C7_FrameNumbersBounded ==
    \A n \in FrameNumbers(session_data.emotions)
             \cup FrameNumbers(session_data.gaze_points)
             \cup FrameNumbers(session_data.game_events) :
        n <= session_data.frame_count

\* readings and an event are recorded, the event tagged with the latest frame
C7_Witness ==
    /\ session_data.frame_count = 2
    /\ session_data.emotions # << >>
    /\ session_data.gaze_points # << >>
    /\ 2 \in FrameNumbers(session_data.game_events)

\* C8: the frames retained in memory never outnumber max_frames_in_memory,
\* while frame_count counts every accepted call.
C8_RetentionCapped ==
    /\ Len(session_data.video_frames) <= max_frames_in_memory
    /\ session_active => session_data.frame_count = calls

\* retention is on and full, and more calls were counted than frames retained
C8_Witness ==
    /\ export_raw_frames
    /\ Len(session_data.video_frames) = max_frames_in_memory
    /\ session_data.frame_count > max_frames_in_memory

\* C9: a stop_session call that finds a video writer releases that writer and
\* leaves video_writer None.
C9_StopReleasesSink ==
    [][(video_writer # None /\ StopSession)
          => (writers'[video_writer] = "released" /\ video_writer' = None)]_vars

\* a session in which a frame-handling error was caught has been stopped and
\* its writer, opened by start_session, is released
C9_Witness ==
    /\ ~session_active
    /\ failed
    /\ video_writer = None
    /\ \E w \in 1..Len(writers) : writers[w] = "released"

\* C10 (as claimed): once the frame handling has failed in a session, the
\* session stays active and every later add_frame_data call still records its
\* timestamp and the readings it was given.
C10_LaterCallsKeepReadings ==
    [][\A now \in Times, frame \in FrameKinds, wfail \in BOOLEAN,
          ek \in EmotionKinds, gk \in GazeKinds :
          (session_active /\ failed /\ AddFrameDataCall(now, frame, wfail, ek, gk))
          => /\ session_active'
             /\ Len(session_data'.timestamps) = Len(session_data.timestamps) + 1
             /\ ek # "none" =>
                   Len(session_data'.emotions) = Len(session_data.emotions) + 1
             /\ gk # "none" =>
                   Len(session_data'.gaze_points) = Len(session_data.gaze_points) + 1]_vars

\* C11 (as claimed): start_session returns with the session active and, when
\* the video sink did not open, with video_writer None.
C11_FailedSinkLeavesNoWriter ==
    [][StartSession =>
          /\ session_active'
          /\ video_writer' # None => writers'[video_writer'] = "open"]_vars

\* C12: add_game_event in an active session appends exactly one event, whose
\* timestamp is the given time minus the session's start time and whose
\* frame_number is the frame_count it found, and leaves frame_count,
\* timestamps, emotions and gaze_points as they were.
C12_EventAppended ==
    [][\A now \in Times, event_type \in EventTypes :
          (session_active /\ AddGameEventCall(now, event_type))
          => /\ session_data'.game_events =
                   Append(session_data.game_events,
                          [timestamp    |-> now - session_start_time,
                           type         |-> event_type,
                           data         |-> EventData(event_type),
                           frame_number |-> session_data.frame_count])
             /\ session_data'.frame_count = session_data.frame_count
             /\ session_data'.timestamps = session_data.timestamps
             /\ session_data'.emotions = session_data.emotions
             /\ session_data'.gaze_points = session_data.gaze_points]_vars

\* an event recorded one tick after the session's start, after one frame
C12_Witness ==
    /\ session_active
    /\ Len(session_data.game_events) = 1
    /\ session_data.game_events[1].timestamp = 1
    /\ session_data.game_events[1].frame_number = 1

\* C13 (as claimed): an accepted add_frame_data call appends exactly one
\* emotions entry tagged with the incremented frame_count when it is given an
\* emotion reading, exactly one gaze_points entry tagged likewise and carrying
\* x, y and confidence 1 when it is given a gaze reading, and nothing to a
\* sequence whose reading is absent.
C13_ReadingsAppended ==
    [][\A now \in Times, frame \in FrameKinds, wfail \in BOOLEAN,
          ek \in EmotionKinds, gk \in GazeKinds :
          (session_active /\ AddFrameDataCall(now, frame, wfail, ek, gk))
          => LET e  == session_data.emotions
                 e2 == session_data'.emotions
                 g  == session_data.gaze_points
                 g2 == session_data'.gaze_points
                 n  == session_data.frame_count + 1
             IN  /\ IF ek # "none"
                    THEN /\ Len(e2) = Len(e) + 1
                         /\ SubSeq(e2, 1, Len(e)) = e
                         /\ e2[Len(e2)].frame_number = n
                    ELSE e2 = e
                 /\ IF gk # "none"
                    THEN /\ Len(g2) = Len(g) + 1
                         /\ SubSeq(g2, 1, Len(g)) = g
                         /\ g2[Len(g2)].frame_number = n
                         /\ g2[Len(g2)].x = GazeReading(gk)[1]
                         /\ g2[Len(g2)].y = GazeReading(gk)[2]
                         /\ g2[Len(g2)].confidence = 1
                    ELSE g2 = g]_vars

(***************************************************************************)
(* Properties of the frame source.                                         *)
(***************************************************************************)

\* C14 (as claimed): stop releases the device handle only once the
\* acquisition threads have ended.
C14_ReleaseAfterThreadExit ==
    [][(Stop_Release /\ cap # None)
          => \A t \in 1..Len(threads) : ~ThreadAlive(t)]_vars

\* C15 (as claimed): get_frame never returns a frame older than one it
\* returned earlier.
C15_NeverOlderFrame ==
    [][(GetFrame /\ current_frame # None) => frames[current_frame] >= newest]_vars

\* C16 (as claimed): get_frame returns a frame only while the device is
\* yielding frames, and only a frame read since the last start.
C16_NoStaleFrame ==
    [][(GetFrame /\ current_frame # None)
          => (yielding /\ frames[current_frame] > runBase)]_vars

\* C17: get_frame called while no read of an acquisition thread has
\* succeeded returns None.
C17_NoneBeforeFirstRead ==
    [][(GetFrame /\ reads = 0) => got'.frame = None]_vars

\* get_frame has returned None while the camera runs, its thread is inside
\* the device read and no read has succeeded
C17_Witness ==
    /\ got.called
    /\ got.frame = None
    /\ reads = 0
    /\ is_running
    /\ \E t \in 1..Len(threads) : threads[t].pc = "reading"

\* C18: when the caller writes into an array get_frame returned, the array
\* of the slot and the other arrays returned keep their content, and when an
\* acquisition thread writes the slot, every array returned keeps its content.
C18_CopyIsolation ==
    [][/\ \A i \in 1..Len(held) :
             MutateFrame(i) =>
                /\ \A j \in 1..Len(held) :
                      held[j] # held[i] => frames'[held[j]] = frames[held[j]]
                /\ current_frame # None =>
                      frames'[current_frame] = frames[current_frame]
       /\ \A t \in 1..Len(threads) :
             Capture_Store(t) =>
                \A j \in 1..Len(held) : frames'[held[j]] = frames[held[j]]]_vars

\* two arrays were returned, the caller has written into the first, and the
\* second and the slot hold a frame of the device
C18_Witness ==
    /\ Len(held) = 2
    /\ held[1] # held[2]
    /\ frames[held[1]] = 0
    /\ frames[held[2]] > 0
    /\ current_frame # None
    /\ frames[current_frame] > 0

\* C19: stop, in whatever state it is called, returns with is_running False
\* and no device handle held.
C19_StopAlwaysSafe ==
    [][Stop_Release => (~is_running' /\ cap' = None /\ camPc' = "idle")]_vars

\* stop has returned after a start whose device opened and yielded no frame
C19_Witness ==
    /\ camPc = "idle"
    /\ lastStart = "noframe"
    /\ cap = None
    /\ ~is_running
    /\ capture_thread = None
    /\ devices = << "released" >>

\* C20 (as claimed): a start with an explicit index whose device does not
\* open, or opens and yields no frame, launches no acquisition thread and
\* leaves is_running False.
C20_FailedStartNotRunning ==
    [][(StartIndex /\ lastStart' \in {"unopened", "noframe"})
          => (threads' = threads /\ ~is_running')]_vars

\* the indices whose device opens and yields a frame
WorkingIndices(works) == { index \in DOMAIN works : works[index] = "ok" }

\* C21 (as claimed): start() without an index starts the capture on the
\* lowest index that works, with one new acquisition thread on an open
\* device, and when no index works it returns with no acquisition thread
\* running.
C21_AutoDetectLowestIndex ==
    [][\A works \in DeviceMaps :
          StartAutoOn(works) =>
             IF WorkingIndices(works) # {}
             THEN /\ FirstProbe(works) \in WorkingIndices(works)
                  /\ \A index \in WorkingIndices(works) : FirstProbe(works) <= index
                  /\ is_running'
                  /\ threads' = Append(threads, NewThread)
                  /\ devices'[cap'] = "open"
             ELSE /\ FirstProbe(works) = ProbeCount
                  /\ \A t \in 1..Len(threads') : threads'[t].pc = "done"]_vars

\* C22: a failed device read sends the acquisition thread back to the loop
\* test, the loop test of a running manager with an open device sends it to
\* the next read, and a successful read is stored in the slot.
C22_FailedReadRetries ==
    [][\A t \in 1..Len(threads) :
          /\ (Capture_ReadReturn(t) /\ ~yielding') => threads'[t].pc = "test"
          /\ (Capture_Test(t) /\ is_running /\ cap # None /\ devices[cap] = "open")
                => threads'[t].pc = "read"
          /\ Capture_Store(t) =>
                /\ current_frame' # None
                /\ frames'[current_frame'] = threads[t].frame]_vars

\* the only acquisition thread has stored a frame it read after a failed read
C22_Witness ==
    /\ Len(threads) = 1
    /\ failedAfter.failed
    /\ current_frame # None
    /\ frames[current_frame] > failedAfter.reads


(***************************************************************************)
(* Analytics of the recorder (get_summary_statistics, prepare_for_export)  *)
(* and of the analyzer (_find_peaks).  Emotion values are probabilities,   *)
(* kept in hundredths; mean and std are real-valued and left out of the    *)
(* statistics.                                                             *)
(***************************************************************************)
\* default min_height of _find_emotion_peaks and _find_peaks: 0.5
MinHeight == 50

\* default grid_size of _generate_gaze_heatmap and get_heatmap_data
GridSize == 50

\* self.max_frames_in_memory as __init__ sets it
DefaultMaxFramesInMemory == 1000

\* the cell pandas gives a row that lacks the column (any number no reading
\* can take serves)
NaN == -1

\* the comparison accepts equal values
Greater_OrEqual(a, b) == a # NaN /\ b # NaN /\ a >= b

\* a > b on floats: False when either side is NaN
Greater(a, b) == a # NaN /\ b # NaN /\ a > b

RECURSIVE PeaksFrom(_, _, _, _)
\* lines 328-337 (227-239 of the analyzer): the loop from index i on.  data
\* and stamps are 0-indexed in the code, 1-indexed here; the timestamp None
\* is the empty tuple, the timestamp t the tuple << t >>.
PeaksFrom(data, min_height, stamps, i) ==
    IF i >= Len(data) - 1
    THEN << >>
    ELSE IF /\ Greater(data[i + 1], data[i])
            /\ Greater(data[i + 1], data[i + 2])
            /\ Greater(data[i + 1], min_height)
         THEN << [index     |-> i,
                  value     |-> data[i + 1],
                  timestamp |-> IF i < Len(stamps) THEN << stamps[i + 1] >> ELSE << >>] >>
              \o PeaksFrom(data, min_height, stamps, i + 1)
         ELSE PeaksFrom(data, min_height, stamps, i + 1)

\* _find_emotion_peaks, lines 322-339, and _find_peaks, lines 227-241; stamps
\* is self.session_data['timestamps'] in the first and the timestamps of
\* self.emotion_history in the second
FindPeaks(data, min_height, stamps) ==
    IF Len(data) < 3 THEN << >> ELSE PeaksFrom(data, min_height, stamps, 1)

\* self.frame_skip as __init__ sets it
FrameSkip == 30

\* _calculate_duration_above_threshold, lines 243-253, in thirtieths of a
\* second: np.sum(data > threshold) * self.frame_skip, which line 252 divides
\* by 30.0
DurationAboveThreshold(data, threshold) ==
    IF Len(data) = 0
    THEN 0
    ELSE Cardinality({ i \in 1..Len(data) : Greater(data[i], threshold) }) * FrameSkip

\* dict.get(k, default)
Get(d, k, default) == IF k \in DOMAIN d THEN d[k] ELSE default

EmotionColumns ==
    {"anger", "disgust", "fear", "happiness", "sadness", "surprise", "neutral"}

\* pd.DataFrame(entries)[column].values
Column(entries, column) == [i \in 1..Len(entries) |-> Get(entries[i], column, NaN)]

\* pd.DataFrame(entries).columns
Columns(entries) == UNION { DOMAIN entries[i] : i \in 1..Len(entries) }

SetMin(S) == CHOOSE x \in S : \A y \in S : x <= y

SetMax(S) == CHOOSE x \in S : \A y \in S : y <= x

\* the values of a column that are not NaN (min() and max() skip NaN)
Present(data) == { data[i] : i \in 1..Len(data) } \ {NaN}

\* _calculate_emotion_stats, lines 243-262
CalculateEmotionStats(sd) ==
    [emotion \in EmotionColumns \cap Columns(sd.emotions) |->
        LET emotion_data == Column(sd.emotions, emotion)
        IN  [min   |-> SetMin(Present(emotion_data)),
             max   |-> SetMax(Present(emotion_data)),
             peaks |-> FindPeaks(emotion_data, MinHeight, sd.timestamps)]]


(***************************************************************************)
(* Strings are sequences of one-character strings, so that formatting an   *)
(* integer and parsing it back are computed digit by digit.                *)
(***************************************************************************)
DigitChars == << "0", "1", "2", "3", "4", "5", "6", "7", "8", "9" >>

RECURSIVE Digits(_)
\* the decimal digits of n >= 0
Digits(n) ==
    IF n < 10
    THEN << DigitChars[n + 1] >>
    ELSE Digits(n \div 10) \o << DigitChars[(n % 10) + 1] >>

\* f"{n}" on an int
FormatInt(n) == IF n < 0 THEN << "-" >> \o Digits(0 - n) ELSE Digits(n)

DigitValue(c) == CHOOSE d \in 0..9 : DigitChars[d + 1] = c

RECURSIVE ParseDigits(_)
ParseDigits(str) ==
    IF Len(str) = 1
    THEN DigitValue(str[1])
    ELSE 10 * ParseDigits(SubSeq(str, 1, Len(str) - 1)) + DigitValue(str[Len(str)])

\* int(str)
ParseInt(str) ==
    IF str[1] = "-" THEN 0 - ParseDigits(Tail(str)) ELSE ParseDigits(str)

\* x_str, y_str = key.split(','), on a key that holds one comma
SplitAtComma(key) ==
    LET comma == CHOOSE i \in 1..Len(key) : key[i] = ","
    IN  << SubSeq(key, 1, comma - 1), SubSeq(key, comma + 1, Len(key)) >>

\* lines 350-352: f"{grid_x},{grid_y}".  x // grid_size is the floor division,
\* as \div is.
GridKey(point, grid_size) ==
    FormatInt((point.x \div grid_size) * grid_size)
        \o << "," >> \o FormatInt((point.y \div grid_size) * grid_size)

\* the cell's weight replaced by the weight of the last point
AddToGrid_Overwrite(grid, key, weight) ==
    IF \E i \in 1..Len(grid) : grid[i].key = key
    THEN LET i == CHOOSE i \in 1..Len(grid) : grid[i].key = key
         IN  [grid EXCEPT ![i].weight = weight]
    ELSE Append(grid, [key |-> key, weight |-> weight])

\* line 355: heatmap_grid[key] = heatmap_grid.get(key, 0) + weight.  A dict
\* keeps its keys in insertion order: the grid is the sequence of its items.
AddToGrid(grid, key, weight) ==
    IF \E i \in 1..Len(grid) : grid[i].key = key
    THEN LET i == CHOOSE i \in 1..Len(grid) : grid[i].key = key
         IN  [grid EXCEPT ![i].weight = @ + weight]
    ELSE Append(grid, [key |-> key, weight |-> weight])

RECURSIVE HeatmapGrid(_, _)
\* lines 347-355
HeatmapGrid(points, grid_size) ==
    IF points = << >>
    THEN << >>
    ELSE LET point == points[Len(points)]
         IN  AddToGrid(HeatmapGrid(SubSeq(points, 1, Len(points) - 1), grid_size),
                       GridKey(point, grid_size),
                       Get(point, "confidence", 1))

\* _generate_gaze_heatmap, lines 341-366, and get_heatmap_data, lines 142-168
GenerateGazeHeatmap(points, grid_size) ==
    LET heatmap_grid == HeatmapGrid(points, grid_size)
    IN  [i \in 1..Len(heatmap_grid) |->
            [x      |-> ParseInt(SplitAtComma(heatmap_grid[i].key)[1]),
             y      |-> ParseInt(SplitAtComma(heatmap_grid[i].key)[2]),
             weight |-> heatmap_grid[i].weight]]

\* _calculate_gaze_stats, lines 264-282
CalculateGazeStats(sd) ==
    LET gaze_points == sd.gaze_points
        x_coords == { gaze_points[i].x : i \in 1..Len(gaze_points) }
        y_coords == { gaze_points[i].y : i \in 1..Len(gaze_points) }
    IN  [total_points |-> Len(gaze_points),
         range_x      |-> SetMax(x_coords) - SetMin(x_coords),
         range_y      |-> SetMax(y_coords) - SetMin(y_coords),
         heatmap_data |-> GenerateGazeHeatmap(gaze_points, GridSize)]

\* line 304
ScoreEventTypes == {"score_update", "target_hit", "flappy_bird_score_update"}

RECURSIVE ScoreProgression(_)
\* lines 303-309
ScoreProgression(events) ==
    IF events = << >>
    THEN << >>
    ELSE LET event == events[Len(events)]
             before == ScoreProgression(SubSeq(events, 1, Len(events) - 1))
         IN  IF event.type \in ScoreEventTypes
             THEN Append(before, [timestamp |-> event.timestamp,
                                  score     |-> Get(event.data, "score", 0)])
             ELSE before

RECURSIVE LevelChanges(_)
\* lines 312-318
LevelChanges(events) ==
    IF events = << >>
    THEN << >>
    ELSE LET event == events[Len(events)]
             before == LevelChanges(SubSeq(events, 1, Len(events) - 1))
         IN  IF event.type = "difficulty_change"
             THEN Append(before, [timestamp  |-> event.timestamp,
                                  from_level |-> Get(event.data, "from", 0),
                                  to_level   |-> Get(event.data, "to", 0)])
             ELSE before

\* _calculate_game_stats, lines 284-320
CalculateGameStats(sd) ==
    LET events == sd.game_events
    IN  [total_events      |-> Len(events),
         event_types       |->
             [type \in { events[i].type : i \in 1..Len(events) } |->
                 Cardinality({ i \in 1..Len(events) : events[i].type = type })],
         score_progression |-> ScoreProgression(events),
         level_changes     |-> LevelChanges(events)]

\* the game statistics computed without the test of line 229
SummaryStatistics_Unguarded(sd) ==
    [session_info       |-> sd.session_info,
     frame_statistics   |-> [total_frames |-> sd.frame_count, fps |-> 30],
     emotion_statistics |-> IF sd.emotions # << >>
                            THEN CalculateEmotionStats(sd) ELSE EmptyDict,
     gaze_statistics    |-> IF sd.gaze_points # << >>
                            THEN CalculateGazeStats(sd) ELSE EmptyDict,
     game_statistics    |-> CalculateGameStats(sd)]

\* get_summary_statistics, lines 207-232 (self.session_data is never empty)
SummaryStatistics(sd) ==
    [session_info       |-> sd.session_info,
     frame_statistics   |-> [total_frames |-> sd.frame_count, fps |-> 30],
     emotion_statistics |-> IF sd.emotions # << >>
                            THEN CalculateEmotionStats(sd) ELSE EmptyDict,
     gaze_statistics    |-> IF sd.gaze_points # << >>
                            THEN CalculateGazeStats(sd) ELSE EmptyDict,
     game_statistics    |-> IF sd.game_events # << >>
                            THEN CalculateGameStats(sd) ELSE EmptyDict]

\* line 374: f"Removed {len(...)} frames to reduce file size"
Placeholder(n) == [text |-> "Removed {} frames to reduce file size", count |-> FormatInt(n)]

\* convert_numpy on a list of dicts, lines 384-387: a new list of new dicts
ConvertList(list) ==
    [i \in 1..Len(list) |-> [k \in DOMAIN list[i] |-> list[i][k]]]

\* prepare_for_export, lines 368-390: the dict it returns
PrepareForExport(data) ==
    [session_info |-> [k \in DOMAIN data.session_info |-> data.session_info[k]],
     video_frames |-> Placeholder(Len(data.video_frames)),
     emotions     |-> ConvertList(data.emotions),
     gaze_points  |-> ConvertList(data.gaze_points),
     game_events  |-> ConvertList(data.game_events),
     timestamps   |-> [i \in 1..Len(data.timestamps) |-> data.timestamps[i]],
     frame_count  |-> data.frame_count]

\* the placeholder assigned in the dict that was passed in
AfterExport_InPlace(data) == [data EXCEPT !.video_frames = Placeholder(Len(@))]

\* lines 370-374: the dict passed in, after the call.  The placeholder is
\* assigned in export_data, the copy of line 370.
AfterExport(data) == data


(***************************************************************************)
(* The peak finders called on a series.  The analyzer's history holds one  *)
(* entry per value of the series, the i-th recorded at time i.             *)
(***************************************************************************)
SeriesValues == {20, 50, 80, 95}

\* [0, 0.2, 0.8, 0.3, 0.9, 0.95, 0.4]
ExampleSeries == << 0, 20, 80, 30, 90, 95, 40 >>

SeriesInputs ==
    UNION { [1..n -> SeriesValues] : n \in 0..MaxSeries } \cup {ExampleSeries}

\* the recorder's fields other than session_data
recOther == << session_active, session_start_time, video_writer, video_filename,
               export_video, export_raw_frames, max_frames_in_memory, writers,
               snapshot, returned, ignored, calls, failed, starts, nframes,
               nevents, pc, afd >>

\* A, an analytics call, performed on its own
Analytics(A) == A /\ UNCHANGED << recOther, camVars, camGhost, eaVars, appVars, gameVars >>

\* self._find_emotion_peaks(series)
FindEmotionPeaksCall ==
    /\ result' = [op |-> "peaks",
                  value |-> FindPeaks(series, MinHeight, session_data.timestamps)]
    /\ UNCHANGED << session_data, series >>

\* [entry['timestamp'] for entry in self.emotion_history]
HistoryStamps(data) == [i \in 1..Len(data) |-> i]

\* self._find_peaks(series)
AnalyzerFindPeaksCall ==
    /\ result' = [op |-> "analyzer_peaks",
                  value |-> FindPeaks(series, MinHeight, HistoryStamps(series))]
    /\ UNCHANGED << session_data, series >>

\* self._calculate_duration_above_threshold(series, threshold=0.5)
DurationAboveThresholdCall ==
    /\ result' = [op |-> "duration",
                  value |-> DurationAboveThreshold(series, MinHeight)]
    /\ UNCHANGED << session_data, series >>

InitPeaks ==
    /\ RecorderInit
    /\ CameraInit
    /\ AnalyzerInit
    /\ AppInit
    /\ GameInit
    /\ series \in SeriesInputs
    /\ result = NoResult

NextPeaks ==
    \/ Analytics(FindEmotionPeaksCall)
    \/ Analytics(AnalyzerFindPeaksCall)
    \/ Analytics(DurationAboveThresholdCall)

SpecPeaks == InitPeaks /\ [][NextPeaks]_vars

(***************************************************************************)
(* The analytics of a session in progress.  The session is what            *)
(* start_session at time 1 and up to MaxCalls calls of add_frame_data and  *)
(* add_game_event, one per tick of the clock, have recorded, with raw      *)
(* frames kept in memory and no video file.                                *)
(***************************************************************************)
\* a reading of process_frame with the given happiness
Reading(value, t) == [EmotionReading("full", t) EXCEPT !.emotions = [happiness |-> value]]

EmotionValues == {20, 80}

GazeInputs == << << 10, 10 >>, << 40, 40 >>, << 60, 60 >> >>

\* the events of the games that carry a score, and one that carries none
AnalyticsEventTypes == {"game_start", "score_update", "target_miss", "difficulty_change"}

\* stress_click_game.py, lines 287-290 (target_miss) and 331-335
\* (difficulty_change)
GameEventData(type) ==
    CASE type = "target_miss" -> [target_id |-> 1, score |-> 2]
      [] type = "difficulty_change" -> [from |-> 1, to |-> 2, score |-> 3]
      [] OTHER -> EventData(type)

FrameInput(ek, value, gaze) ==
    [op |-> "frame", ek |-> ek, value |-> value, gaze |-> gaze, type |-> "none"]

EventInput(type) ==
    [op |-> "event", ek |-> "none", value |-> 0, gaze |-> 0, type |-> type]

CallInputs ==
    { FrameInput("none", 0, 0), FrameInput("current", 0, 0), FrameInput("full", 80, 1) }
        \cup { FrameInput("full", value, 0) : value \in EmotionValues }
        \cup { FrameInput("none", 0, gaze) : gaze \in DOMAIN GazeInputs }
        \cup { EventInput(type) : type \in AnalyticsEventTypes }

\* the call made at time now: main.py lines 348-365 or 412-413
ApplyInput(sd, input, now) ==
    IF input.op = "frame"
    THEN AddFrameDataBody(sd, now, "image", FALSE,
                          IF input.ek = "full"
                          THEN Reading(input.value, now)
                          ELSE EmotionReading(input.ek, now),
                          IF input.gaze = 0 THEN << >> ELSE GazeInputs[input.gaze])
    ELSE AddGameEventBody(sd, now, input.type, GameEventData(input.type))

RECURSIVE Recorded(_)
\* the session record after the calls of inputs, one per tick from the start
\* (the record before the last call is bound to a value, then the call applied)
Recorded(inputs) ==
    IF Len(inputs) = 0
    THEN NewSessionData(session_start_time)
    ELSE CHOOSE after \in
             { ApplyInput(before, inputs[Len(inputs)], session_start_time + Len(inputs)) :
                  before \in { Recorded(SubSeq(inputs, 1, Len(inputs) - 1)) } } : TRUE

\* a session of 37 frames without readings
ExampleInputs == [i \in 1..37 |-> FrameInput("none", 0, 0)]

SessionInputs ==
    UNION { [1..n -> CallInputs] : n \in 0..MaxCalls } \cup {ExampleInputs}

FramesIn(inputs) == Cardinality({ i \in 1..Len(inputs) : inputs[i].op = "frame" })

InitAnalytics ==
    /\ session_active = TRUE
    /\ session_start_time = 1
    /\ video_writer = None
    /\ video_filename = None
    /\ export_video = FALSE
    /\ export_raw_frames = TRUE
    /\ max_frames_in_memory = DefaultMaxFramesInMemory
    /\ writers = << >>
    /\ snapshot = NoSnapshot
    /\ returned = InitialSessionData
    /\ ignored = "none"
    /\ failed = FALSE
    /\ starts = 1
    /\ pc = "idle"
    /\ afd = NoLocals
    /\ \E inputs \in SessionInputs :
          /\ session_data = Recorded(inputs)
          /\ calls = FramesIn(inputs)
          /\ nframes = FramesIn(inputs)
          /\ nevents = Len(inputs) - FramesIn(inputs)
    /\ CameraInit
    /\ AnalyticsInit
    /\ AnalyzerInit
    /\ AppInit
    /\ GameInit

\* self.get_summary_statistics()
GetSummaryStatistics ==
    /\ result' = [op |-> "summary", value |-> SummaryStatistics(session_data)]
    /\ UNCHANGED << session_data, series >>

\* export_to_json, line 395: self.prepare_for_export(self.session_data)
PrepareForExportCall ==
    /\ result' = [op |-> "export", value |-> PrepareForExport(session_data)]
    /\ session_data' = AfterExport(session_data)
    /\ UNCHANGED series

GridSizes == {25, GridSize}

\* self._generate_gaze_heatmap(grid_size)
GenerateGazeHeatmapCall ==
    /\ \E grid_size \in GridSizes :
          result' = [op |-> "heatmap",
                     value |-> [grid_size |-> grid_size,
                                heatmap   |-> GenerateGazeHeatmap(session_data.gaze_points,
                                                                  grid_size)]]
    /\ UNCHANGED << session_data, series >>

\* the peak finders and the duration are called here on the series no
\* reading has contributed to
NextAnalytics ==
    \/ Analytics(GetSummaryStatistics)
    \/ Analytics(GenerateGazeHeatmapCall)
    \/ Analytics(PrepareForExportCall)
    \/ Analytics(FindEmotionPeaksCall)
    \/ Analytics(AnalyzerFindPeaksCall)
    \/ Analytics(DurationAboveThresholdCall)

SpecAnalytics == InitAnalytics /\ [][NextAnalytics]_vars


\* the indices a list of peaks reports
PeakIndices(peaks) == { peaks[k].index : k \in 1..Len(peaks) }

\* C26: in a series of n samples the peak finders report index i, once and in
\* ascending order, iff 1 <= i <= n-2 and the value at i is strictly greater
\* than both neighbours and than the minimum height 0.5; a series of fewer
\* than 3 samples yields no peak; [0,0.2,0.8,0.3,0.9,0.95,0.4] yields the
\* indices 2 and 5.
C26_PeaksExactly ==
    result.op \in {"peaks", "analyzer_peaks"} =>
        LET n == Len(series)
            peaks == result.value
        IN  /\ PeakIndices(peaks) \subseteq 0..(n - 1)
            /\ \A i \in 0..(n - 1) :
                  i \in PeakIndices(peaks) <=>
                     /\ 1 <= i
                     /\ i <= n - 2
                     /\ series[i + 1] > series[i]
                     /\ series[i + 1] > series[i + 2]
                     /\ series[i + 1] > MinHeight
            /\ \A k, l \in 1..Len(peaks) : k < l => peaks[k].index < peaks[l].index
            /\ n < 3 => peaks = << >>
            /\ series = ExampleSeries => PeakIndices(peaks) = {2, 5}

\* the recorder's peak finder has been called on the example series
C26_Witness ==
    /\ result.op = "peaks"
    /\ series = ExampleSeries
    /\ PeakIndices(result.value) = {2, 5}

\* C27 (as claimed): every peak of the emotion statistics reports the value
\* of the emotion entry at its index and the time at which that entry was
\* recorded, also when only some frames carry an emotion reading.
C27_PeakTimestampIsSampleTime ==
    result.op = "summary" =>
        \A emotion \in DOMAIN result.value.emotion_statistics :
            LET peaks == result.value.emotion_statistics[emotion].peaks
            IN  \A k \in 1..Len(peaks) :
                   LET sample == session_data.emotions[peaks[k].index + 1]
                   IN  /\ peaks[k].value = sample[emotion]
                       /\ peaks[k].timestamp = << sample.timestamp >>

\* the cell of a point on a grid of pitch g
Cell(point, g) == << (point.x \div g) * g, (point.y \div g) * g >>

RECURSIVE TotalConfidence(_)
\* the sum of the confidences of a sequence of gaze points
TotalConfidence(points) ==
    IF Len(points) = 0
    THEN 0
    ELSE Get(points[Len(points)], "confidence", 1)
            + TotalConfidence(SubSeq(points, 1, Len(points) - 1))

RECURSIVE TotalWeight(_)
\* the sum of the weights of a heatmap
TotalWeight(heatmap) ==
    IF Len(heatmap) = 0
    THEN 0
    ELSE heatmap[Len(heatmap)].weight + TotalWeight(SubSeq(heatmap, 1, Len(heatmap) - 1))

\* C28: the heatmap of pitch g holds exactly one entry for each distinct cell
\* (floor(x/g)*g, floor(y/g)*g) of the gaze points, weighted by the sum of the
\* confidences of the points in that cell, so the weights sum to the total
\* confidence; pitch 50 on (10,10),(40,40),(60,60) yields (0,0) with weight 2
\* and (50,50) with weight 1.
C28_HeatmapBinning ==
    result.op = "heatmap" =>
        LET points == session_data.gaze_points
            g == result.value.grid_size
            heatmap == result.value.heatmap
            cells == { Cell(points[i], g) : i \in 1..Len(points) }
        IN  /\ { << heatmap[k].x, heatmap[k].y >> : k \in 1..Len(heatmap) } = cells
            /\ Len(heatmap) = Cardinality(cells)
            /\ \A k \in 1..Len(heatmap) :
                  heatmap[k].weight =
                      TotalConfidence(SelectSeq(points,
                          LAMBDA point : Cell(point, g) = << heatmap[k].x, heatmap[k].y >>))
            /\ TotalWeight(heatmap) = TotalConfidence(points)
            /\ (g = 50 /\ [i \in 1..Len(points) |-> << points[i].x, points[i].y >>] = GazeInputs)
                  => heatmap = << [x |-> 0, y |-> 0, weight |-> 2],
                                  [x |-> 50, y |-> 50, weight |-> 1] >>

\* the heatmap of pitch 50 of the points (10,10), (40,40), (60,60)
C28_Witness ==
    /\ result.op = "heatmap"
    /\ result.value.grid_size = 50
    /\ [i \in 1..Len(session_data.gaze_points) |->
           << session_data.gaze_points[i].x, session_data.gaze_points[i].y >>] = GazeInputs
    /\ result.value.heatmap = << [x |-> 0, y |-> 0, weight |-> 2],
                                 [x |-> 50, y |-> 50, weight |-> 1] >>

\* the events whose payload carries a score, as score-progression entries
ScoredEvents(events) ==
    LET scored == SelectSeq(events, LAMBDA event : "score" \in DOMAIN event.data)
    IN  [i \in 1..Len(scored) |->
            [timestamp |-> scored[i].timestamp, score |-> scored[i].data.score]]

\* C29 (as claimed): the score progression of the game statistics holds one
\* entry, in event order, for every recorded event whose payload carries a
\* score, whatever its type, and none for an event without a score.
C29_ScoreProgressionEveryScore ==
    (result.op = "summary" /\ session_data.game_events # << >>) =>
        result.value.game_statistics.score_progression
            = ScoredEvents(session_data.game_events)

\* C30: prepare_for_export leaves the session it is given unchanged and
\* returns a dict with the same keys in which video_frames is a placeholder
\* naming the number of frames in memory (37 for 37 frames) and every other
\* key keeps its content.
C30_ExportSanitized ==
    [][PrepareForExportCall =>
          /\ session_data' = session_data
          /\ DOMAIN result'.value = DOMAIN session_data
          /\ \A k \in DOMAIN session_data \ {"video_frames"} :
                result'.value[k] = session_data[k]
          /\ DOMAIN result'.value.video_frames = {"text", "count"}
          /\ ParseInt(result'.value.video_frames.count) = Len(session_data.video_frames)
          /\ Len(session_data.video_frames) = 37
                => result'.value.video_frames.count = << "3", "7" >>]_vars

\* a session of 37 frames in memory has been prepared for export
C30_Witness ==
    /\ result.op = "export"
    /\ Len(session_data.video_frames) = 37
    /\ result.value.video_frames.count = << "3", "7" >>


(***************************************************************************)
(* EmotionAnalyzer: start, stop and process_frame, called from the main    *)
(* loop.  eaOut records what process_frame returned: called, whether the   *)
(* last call was a skipped frame, the value of the last call, and the      *)
(* value returned for the most recent frame that was not skipped.          *)
(***************************************************************************)
\* A, an operation of the analyzer, performed on its own
Analyzer(A) == A /\ UNCHANGED << recVars, camVars, camGhost, anaVars, appVars, gameVars >>

\* start(), lines 62-73, where initialize() succeeds or not
EA_StartCall(initialized) ==
    /\ IF ~ea.detector /\ ~initialized
       THEN ea' = ea
       ELSE ea' = [ea EXCEPT !.detector = TRUE, !.running = TRUE, !.frame_count = 0]
    /\ UNCHANGED eaOut

EA_Start == \E initialized \in BOOLEAN : EA_StartCall(initialized)

\* stop(), lines 75-78
EA_Stop ==
    /\ ea' = [ea EXCEPT !.running = FALSE]
    /\ UNCHANGED eaOut

\* what detect_image finds in a frame that is analysed: no face, an
\* exception, or a face
Detections == {"none", "raised", "face"}

\* line 88
IsSkipped(frame_count) == frame_count % FrameSkip # 0

\* process_frame(frame) at time now, lines 80-147
EA_ProcessFrameCall(detection, value, now) ==
    IF ~ea.running \/ ~ea.detector
    THEN /\ eaOut' = [eaOut EXCEPT !.called = TRUE, !.skipped = FALSE, !.last = EmptyDict]
         /\ ea' = ea
    ELSE /\ ea.frame_count < MaxAnalyzed
         /\ IF IsSkipped(ea.frame_count + 1)
            THEN /\ ea' = [ea EXCEPT !.frame_count = @ + 1]
                 /\ eaOut' = [eaOut EXCEPT !.called = TRUE, !.skipped = TRUE,
                                           !.last = ea.current_emotions]
            ELSE IF detection = "face"
                 THEN /\ ea' = [ea EXCEPT !.frame_count = @ + 1,
                                          !.current_emotions = Reading(value, now).emotions]
                      /\ eaOut' = [called |-> TRUE, skipped |-> FALSE,
                                   last |-> Reading(value, now),
                                   processed |-> Reading(value, now)]
                 ELSE /\ ea' = [ea EXCEPT !.frame_count = @ + 1]
                      /\ eaOut' = [called |-> TRUE, skipped |-> FALSE,
                                   last |-> EmptyDict, processed |-> EmptyDict]

\* process_frame(frame) when time.time() returns now
EA_ProcessFrameAt(now) ==
    \E detection \in Detections, value \in EmotionValues :
        EA_ProcessFrameCall(detection, value, now)

EA_ProcessFrame == \E now \in Times : EA_ProcessFrameAt(now)

NextAnalyzer ==
    \/ Analyzer(EA_Start)
    \/ Analyzer(EA_Stop)
    \/ Analyzer(EA_ProcessFrame)

SpecAnalyzer == Init /\ [][NextAnalyzer]_vars

\* C25 (as claimed): on a frame it skips, process_frame returns what it
\* returned for the most recent frame it did not skip, or None when there
\* was none.
C25_SkippedReturnsLastResult ==
    eaOut.skipped => eaOut.last = eaOut.processed


(***************************************************************************)
(* The application (src/main.py, FaceItAnalysisSystem).  Its handlers run  *)
(* on the Tk main loop, one at a time and each to its end; the acquisition *)
(* threads of the frame source run between any two steps.  start_session   *)
(* and stop_session are taken apart where they call the recorder twice     *)
(* (the game's event, then start or stop) and where stop waits for the     *)
(* acquisition thread; appPc is the main thread's position.  The Start     *)
(* button is enabled exactly while is_recording is False (lines 298-299    *)
(* and 315, 329); stop_session is called by the Stop button and by the     *)
(* timer of line 308.  The settings are those of __init__ (lines 51-57):   *)
(* camera auto-detection, emotion analysis enabled, the stress-click game; *)
(* the eye tracker has not been calibrated.                                *)
(***************************************************************************)
\* the clock is taken not to advance during a run of the application: every
\* time.time() of its handlers returns the same value
AppTimes == {1}

\* the frame is processed whether or not there is one
FrameAvailable_Always(frame) == TRUE

\* line 344: frame is not None
FrameAvailable(frame) == frame # None

\* process_frame, lines 337-371, with `pending` callbacks left in the queue
\* when it is entered.  Emotion analysis is enabled; the eye tracker is not
\* calibrated, so gaze_point stays None (line 359).
ProcessFrame(pending) ==
    IF ~is_recording
    THEN /\ ticks' = pending
         /\ UNCHANGED << recVars, camVars, camGhost, eaVars >>
    ELSE /\ GetFrame
         /\ IF FrameAvailable(got'.frame)
            THEN \E now \in AppTimes :
                    /\ EA_ProcessFrameAt(now)
                    /\ AddFrameDataWith(now,
                                        IF got'.frame = None THEN "none" ELSE "image",
                                        FALSE, eaOut'.last, GazeReading("none"))
            ELSE UNCHANGED << recVars, eaVars >>
         /\ ticks' = pending + 1

\* a callback scheduled by root.after(33, self.process_frame) runs
AppTick ==
    /\ appPc = "idle"
    /\ ticks > 0
    /\ ProcessFrame(ticks - 1)
    /\ UNCHANGED << anaVars, gameVars, is_recording, timers, game, appPc, reported >>

\* the camera is taken to have started whatever start() returned
StartFailed_Never == FALSE

\* line 271: not success.  start() returns True exactly when it has launched
\* an acquisition thread.
StartFailed == threads' = threads

\* start_session, lines 255-283: the cameras are listed (found or not), the
\* camera is started by auto-detection (camera_index 0), the emotion analyzer
\* is started
AppStart ==
    /\ appPc = "idle"
    /\ ~is_recording
    /\ \E found \in BOOLEAN :
          IF ~found
          THEN /\ reported < MaxReported
               /\ reported' = reported + 1
               /\ UNCHANGED << camVars, camGhost, eaVars, appPc >>
          ELSE /\ StartAuto
               /\ IF StartFailed
                  THEN /\ reported < MaxReported
                       /\ reported' = reported + 1
                       /\ UNCHANGED << eaVars, appPc >>
                  ELSE /\ EA_Start
                       /\ appPc' = "start_game"
                       /\ UNCHANGED reported
    /\ UNCHANGED << recVars, anaVars, gameVars, is_recording, ticks, timers, game >>

\* on_game_event, lines 412-413, called by a game from start() or stop()
OnGameEvent(type) == \E now \in AppTimes : AddGameEventOnce(now, type)

\* start_session, lines 286-292: the game is created and game.start()
\* emits game_start
AppStart_Game ==
    /\ appPc = "start_game"
    /\ game' = "running"
    /\ OnGameEvent("game_start")
    /\ appPc' = "start_recorder"
    /\ UNCHANGED << camVars, camGhost, anaVars, gameVars, eaVars, is_recording, ticks, timers,
                    reported >>

\* start_session, lines 295-301
AppStart_Recorder ==
    /\ appPc = "start_recorder"
    /\ \E now \in AppTimes : StartSessionAt(now)
    /\ is_recording' = TRUE
    /\ appPc' = "first_tick"
    /\ UNCHANGED << camVars, camGhost, anaVars, gameVars, eaVars, ticks, timers, game, reported >>

\* start_session, lines 304-308: process_frame is called, then the auto-stop
\* timer is armed
AppStart_FirstTick ==
    /\ appPc = "first_tick"
    /\ ProcessFrame(ticks)
    /\ timers' = Append(timers, starts)
    /\ appPc' = "idle"
    /\ UNCHANGED << anaVars, gameVars, is_recording, game, reported >>

\* stop_session, lines 315-318 up to the flag of CameraManager.stop, called
\* by the timer or by the Stop button (enabled while is_recording); the
\* timers armed at line 308 fire in the order they were armed
AppStop_Begin ==
    /\ appPc = "idle"
    /\ \E byTimer \in BOOLEAN :
          IF byTimer
          THEN timers # << >> /\ timers' = Tail(timers)
          ELSE is_recording /\ timers' = timers
    /\ is_recording' = FALSE
    /\ Stop_Signal
    /\ appPc' = "stop_camera"
    /\ UNCHANGED << recVars, anaVars, gameVars, eaVars, ticks, game, reported >>

\* stop_session, lines 319-322, once CameraManager.stop has returned:
\* game.stop() emits game_end
AppStop_Game ==
    /\ appPc = "stop_camera"
    /\ camPc = "idle"
    /\ IF game # "none"
       THEN /\ game' = "stopped"
            /\ OnGameEvent("game_end")
       ELSE UNCHANGED << recVars, game >>
    /\ EA_Stop
    /\ appPc' = "stop_recorder"
    /\ UNCHANGED << camVars, camGhost, anaVars, gameVars, is_recording, ticks, timers, reported >>

\* stop_session, lines 325-335
AppStop_Recorder ==
    /\ appPc = "stop_recorder"
    /\ \E now \in AppTimes : StopSessionAt(now)
    /\ appPc' = "idle"
    /\ UNCHANGED << camVars, camGhost, anaVars, gameVars, eaVars, is_recording, ticks, timers,
                    game, reported >>

\* a callback of the running game reports the score
AppGameEvent ==
    /\ appPc = "idle"
    /\ game = "running"
    /\ \E now \in AppTimes : AddGameEventCall(now, "score_update")
    /\ UNCHANGED << camVars, camGhost, anaVars, gameVars, eaVars, appVars >>

\* the recorder keeps the readings only: no video file, no raw frames
InitApp == Init /\ ~export_video /\ ~export_raw_frames

NextApp ==
    \/ AppStart
    \/ AppStart_Game
    \/ AppStart_Recorder
    \/ AppStart_FirstTick
    \/ AppTick
    \/ AppGameEvent
    \/ AppStop_Begin
    \/ Camera(Stop_Join)
    \/ Camera(Stop_Release)
    \/ AppStop_Game
    \/ AppStop_Recorder
    \/ \E t \in 1..Len(threads) : Camera(Capture_Test(t))
    \/ \E t \in 1..Len(threads) : Camera(Capture_ReadCall(t))
    \/ \E t \in 1..Len(threads) : Camera(Capture_ReadReturn(t))
    \/ \E t \in 1..Len(threads) : Camera(Capture_Store(t))

SpecApp == InitApp /\ [][NextApp]_vars

(***************************************************************************)
(* The pipeline of a session: process_frame hands every frame to the       *)
(* emotion analyzer and the analyzer's result to the recorder (main.py     *)
(* 348-365), for sessions long enough for the analyzer to analyse a frame. *)
(* The camera delivers a frame at every tick; start_session and            *)
(* stop_session are reduced to what they do to the analyzer and the        *)
(* recorder.                                                               *)
(***************************************************************************)
\* start_session, lines 276-298
Pipe_Start ==
    /\ ~is_recording
    /\ EA_Start
    /\ \E now \in AppTimes : StartSessionAt(now)
    /\ is_recording' = TRUE
    /\ UNCHANGED << camVars, camGhost, anaVars, gameVars, ticks, timers, game, appPc, reported >>

\* process_frame, lines 348-365, with a frame
Pipe_Tick ==
    /\ is_recording
    /\ session_data.frame_count < MaxAnalyzed
    /\ \E now \in AppTimes :
          /\ EA_ProcessFrameAt(now)
          /\ AddFrameDataOnce(now, "image", FALSE, eaOut'.last, GazeReading("none"))
    /\ UNCHANGED << camVars, camGhost, anaVars, gameVars, appVars >>

\* stop_session, lines 315-325
Pipe_Stop ==
    /\ is_recording
    /\ is_recording' = FALSE
    /\ EA_Stop
    /\ \E now \in AppTimes : StopSessionAt(now)
    /\ UNCHANGED << camVars, camGhost, anaVars, gameVars, ticks, timers, game, appPc, reported >>

NextPipeline ==
    \/ Pipe_Start
    \/ Pipe_Tick
    \/ Pipe_Stop

SpecPipeline == InitApp /\ [][NextPipeline]_vars

\* C23: a processing tick that runs while recording and finds no frame in
\* the camera's slot leaves the recorder and the emotion analyzer exactly as
\* they were and schedules one callback: the queue of callbacks keeps its
\* size when the tick was itself a callback, and grows by one when the tick
\* was the direct call of start_session.
C23_NoFrameTickOnlyReschedules ==
    [][ ((AppTick \/ AppStart_FirstTick) /\ is_recording /\ current_frame = None)
           => /\ UNCHANGED << recVars, eaVars >>
              /\ AppTick => ticks' = ticks
              /\ AppStart_FirstTick => ticks' = ticks + 1 ]_vars

\* a tick has found the slot empty during a recording: nothing was recorded
\* and a callback is pending
C23_Witness ==
    /\ is_recording
    /\ appPc = "idle"
    /\ got.called
    /\ got.frame = None
    /\ current_frame = None
    /\ session_active
    /\ nframes = 0
    /\ ticks > 0

\* C24: when start_session finds no camera, or the camera does not start (no
\* acquisition thread is launched), it reports the failure and returns: the
\* game is not started, the recorder is untouched, is_recording stays False
\* and no tick or timer is scheduled.
C24_CameraFailureReportedBeforeRecording ==
    [][ (AppStart /\ threads' = threads)
           => /\ reported' = reported + 1
              /\ appPc' = "idle"
              /\ ~is_recording'
              /\ game' = game
              /\ UNCHANGED << recVars, ticks, timers >> ]_vars

\* the camera was tried once and did not start; the failure was reported and
\* nothing of a session exists
C24_Witness ==
    /\ reported = 1
    /\ camStarts = 1
    /\ Len(threads) = 0
    /\ appPc = "idle"
    /\ ~is_recording
    /\ game = "none"
    /\ starts = 0
    /\ ticks = 0
    /\ timers = << >>

\* C31: statistics asked of a session without data are empty: the summary of
\* a session with no emotion entries, no gaze points and no game events has
\* empty emotion, gaze and game statistics; the heatmap of no gaze points is
\* the empty list; the peaks of an empty series are the empty list and its
\* duration above the threshold is 0.  Every call returns a value.
C31_EmptyAnalytics ==
    /\ (result.op = "summary" /\ session_data.emotions = << >>)
          => result.value.emotion_statistics = EmptyDict
    /\ (result.op = "summary" /\ session_data.gaze_points = << >>)
          => result.value.gaze_statistics = EmptyDict
    /\ (result.op = "summary" /\ session_data.game_events = << >>)
          => result.value.game_statistics = EmptyDict
    /\ (result.op = "heatmap" /\ session_data.gaze_points = << >>)
          => result.value.heatmap = << >>
    /\ (result.op \in {"peaks", "analyzer_peaks"} /\ series = << >>)
          => result.value = << >>
    /\ (result.op = "duration" /\ series = << >>) => result.value = 0

\* the summary of a session of frames that carried no reading and saw no event
C31_Witness ==
    /\ result.op = "summary"
    /\ session_data.frame_count > 0
    /\ session_data.emotions = << >>
    /\ session_data.gaze_points = << >>
    /\ session_data.game_events = << >>
    /\ result.value.emotion_statistics = EmptyDict
    /\ result.value.gaze_statistics = EmptyDict
    /\ result.value.game_statistics = EmptyDict

\* C32 (as claimed): a stop_session run by the timer while a session is
\* recording is run by the timer that this session armed.
C32_TimerStopsItsOwnSession ==
    [][(is_recording /\ Len(timers') < Len(timers)) => Head(timers) = starts]_vars

\* C33 (as claimed): the record of a session in progress holds the start
\* event of its game.
C33_SessionHasGameStart ==
    (is_recording /\ session_active)
       => \E i \in 1..Len(session_data.game_events) :
             session_data.game_events[i].type = "game_start"

\* C34 (as claimed): every emotions entry of the record carries the value of
\* at least one emotion channel.
C34_EntriesCarryEmotions ==
    \A i \in 1..Len(session_data.emotions) :
       DOMAIN session_data.emotions[i] \cap EmotionColumns # {}

\* C35 (as claimed): at most one process_frame callback is pending.
C35_OneTickPending == ticks <= 1

\* C36 (as claimed): at most one video writer created by the recorder is
\* open (constructed, opened and not released) at any time.
C36_AtMostOneOpenSink ==
    Cardinality({ w \in 1..Len(writers) : writers[w] = "open" }) <= 1

\* C37 (as claimed): at most one acquisition thread is alive and at most one
\* device is open (a handle not released) at any time.
C37_OneThreadOneHandle ==
    /\ Cardinality({ t \in 1..Len(threads) : ThreadAlive(t) }) <= 1
    /\ Cardinality({ d \in 1..Len(devices) : devices[d] = "open" }) <= 1


(***************************************************************************)
(* StressClickGame (src/games/stress_click_game.py).  Every handler runs   *)
(* on the Tk main loop, to its end.  The object is started once, as        *)
(* start_session does with the game it creates; stop is called by the      *)
(* game's countdown and by the application.                                *)
(***************************************************************************)
\* targets spawned, clicks handled and callback calls of one game
MaxTargets == 2
MaxClicks == 2
MaxEmitted == 9

Game(A) == A /\ UNCHANGED << recVars, camVars, camGhost, anaVars, eaVars, appVars >>

\* the number of callback calls so far
EmittedTotal == emitted["game_start"] + emitted["target_spawn"] + emitted["score_update"]
                + emitted["target_miss"] + emitted["target_hit"]
                + emitted["difficulty_change"] + emitted["game_end"]

RECURSIVE Emit(_, _)
\* self.game_event_callback(type, ..) for each type of the list, in order
Emit(counts, types) ==
    IF types = << >>
    THEN counts
    ELSE Emit([counts EXCEPT ![Head(types)] = @ + 1], Tail(types))

\* update_display, lines 430-448: the labels, then the score_update event
UpdateDisplay == << "score_update" >>

\* spawn_target, lines 176-234, on a canvas that is ready or not (line 184):
\* the game after it and the events it emits
SpawnTarget(g, ready) ==
    IF ~g.running \/ ~ready
    THEN [game |-> g, events |-> << >>]
    ELSE [game |-> [g EXCEPT !.targets = @ \cup {g.next},
                             !.ovals = @ \cup {g.next},
                             !.removals = @ \cup {g.next},
                             !.next = @ + 1],
          events |-> << "target_spawn" >>]

\* start(), lines 100-124, followed by schedule_target_spawn (162-174),
\* start_game_timer (402-417) and start_update_loop (419-428)
SG_Start ==
    /\ ~sg.started
    /\ \E ready \in BOOLEAN :
          LET begun == [sg EXCEPT !.started = TRUE, !.running = TRUE, !.score = 0,
                                  !.hits = 0, !.misses = 0, !.level = 1,
                                  !.targets = {}, !.texts = FALSE]
              spawned == SpawnTarget(begun, ready)
          IN  /\ sg' = [spawned.game EXCEPT !.spawn_timer = TRUE, !.game_timer = TRUE,
                                            !.update_timer = TRUE]
              /\ emitted' = Emit(emitted, << "game_start" >> \o spawned.events
                                          \o UpdateDisplay)

\* lines 151-158: the event of stop(), whether the game was running or not
StopEvents == << "game_end" >>

\* the body of stop(), lines 126-160
Stopped(g) ==
    [g EXCEPT !.running = FALSE, !.spawn_timer = FALSE, !.game_timer = FALSE,
              !.update_timer = FALSE, !.ovals = {}, !.texts = TRUE]

\* stop() called by the application (main.py 320, 490) on the game it holds
SG_Stop ==
    /\ sg.started
    /\ sg.canvas
    /\ EmittedTotal < MaxEmitted
    /\ sg' = Stopped(sg)
    /\ emitted' = Emit(emitted, StopEvents)

\* the callback of spawn_timer: schedule_target_spawn, lines 162-174
SG_SpawnTimer ==
    /\ sg.spawn_timer
    /\ EmittedTotal < MaxEmitted
    /\ \E ready \in BOOLEAN :
          /\ ready => sg.next <= MaxTargets
          /\ LET spawned == SpawnTarget(sg, ready)
             IN  /\ sg' = [spawned.game EXCEPT !.spawn_timer = sg.running]
                 /\ emitted' = Emit(emitted, spawned.events)

\* the callback of game_timer: countdown, lines 404-415, when the time is up
\* or not
SG_Countdown ==
    /\ sg.game_timer
    /\ EmittedTotal < MaxEmitted
    /\ \E expired \in BOOLEAN :
          IF ~sg.running
          THEN /\ sg' = [sg EXCEPT !.game_timer = FALSE]
               /\ UNCHANGED emitted
          ELSE IF expired
               THEN /\ sg' = Stopped(sg)
                    /\ emitted' = Emit(emitted, StopEvents)
               ELSE UNCHANGED << sg, emitted >>

\* the callback of update_timer: update, lines 421-426
SG_Update ==
    /\ sg.update_timer
    /\ EmittedTotal < MaxEmitted
    /\ IF ~sg.running
       THEN /\ sg' = [sg EXCEPT !.update_timer = FALSE]
            /\ UNCHANGED emitted
       ELSE /\ emitted' = Emit(emitted, UpdateDisplay)
            /\ UNCHANGED sg

\* the callback armed at line 223: remove_target(target_id), lines 273-293.
\* game_canvas.delete of an id that no item has raises nothing, so the miss
\* is counted whether the target is still listed or not; on a destroyed
\* canvas line 277 raises TclError, caught at line 292.
SG_RemoveTarget(target_id) ==
    /\ target_id \in sg.removals
    /\ EmittedTotal + 2 <= MaxEmitted
    /\ IF sg.canvas
       THEN /\ sg' = [sg EXCEPT !.removals = @ \ {target_id},
                                !.ovals = @ \ {target_id},
                                !.targets = @ \ {target_id},
                                !.misses = @ + 1]
            /\ emitted' = Emit(emitted, UpdateDisplay \o << "target_miss" >>)
       ELSE /\ sg' = [sg EXCEPT !.removals = @ \ {target_id}]
            /\ UNCHANGED emitted

\* level_thresholds, line 33
LevelThresholds == << 0, 10, 25, 45, 70 >>

\* calculate_level, lines 395-400
CalculateLevel(score) ==
    LET reached == { i \in 1..Len(LevelThresholds) : score >= LevelThresholds[i] }
    IN  IF reached = {} THEN 1 ELSE CHOOSE i \in reached : \A j \in reached : j <= i

\* what find_closest returns for a click: a target item, an item that is not
\* a target, or nothing when the canvas holds no item (the [0] of line 301
\* then raises IndexError)
ClickFinds == { [kind |-> "target", id |-> t] : t \in sg.ovals }
              \cup (IF sg.texts THEN {[kind |-> "other", id |-> 0]} ELSE {})
              \cup (IF sg.ovals = {} /\ ~sg.texts THEN {[kind |-> "nothing", id |-> 0]} ELSE {})

\* time_bonus of line 316: 0 for a slow click, 10 for an immediate one
TimeBonuses == {0, 10}

\* on_canvas_click, lines 295-357
SG_Click ==
    /\ sg.running
    /\ sg.canvas
    /\ sg.clicks < MaxClicks
    /\ EmittedTotal + 3 <= MaxEmitted
    /\ \E found \in ClickFinds, time_bonus \in TimeBonuses :
          LET clicked == [sg EXCEPT !.clicks = @ + 1]
          IN  CASE found.kind = "target" /\ found.id \in sg.targets ->
                     LET score == sg.score + sg.level * 2 + time_bonus
                         new_level == CalculateLevel(score)
                     IN  /\ sg' = [clicked EXCEPT !.score = score,
                                                  !.hits = @ + 1,
                                                  !.ovals = @ \ {found.id},
                                                  !.targets = @ \ {found.id},
                                                  !.level = IF new_level > @ THEN new_level ELSE @,
                                                  !.texts = TRUE]
                         /\ emitted' = Emit(emitted,
                                            (IF new_level > sg.level
                                             THEN << "difficulty_change" >> ELSE << >>)
                                            \o UpdateDisplay \o << "target_hit" >>)
                [] found.kind = "nothing" ->
                     /\ sg' = clicked
                     /\ UNCHANGED emitted
                [] OTHER ->
                     /\ sg' = [clicked EXCEPT !.misses = @ + 1, !.other_clicks = @ + 1,
                                              !.texts = TRUE]
                     /\ emitted' = Emit(emitted, UpdateDisplay)

\* the feedback texts are deleted (lines 377, 393) while the game runs
SG_FeedbackGone ==
    /\ sg.running
    /\ sg.texts
    /\ sg' = [sg EXCEPT !.texts = FALSE]
    /\ UNCHANGED emitted

\* the next start_session builds a new game in the same frame: setup_ui,
\* lines 52-53, destroys the canvas of this one, and the application holds
\* this game no longer
SG_Destroyed ==
    /\ sg.started
    /\ ~sg.running
    /\ sg.canvas
    /\ sg' = [sg EXCEPT !.canvas = FALSE]
    /\ UNCHANGED emitted

NextGame ==
    \/ Game(SG_Start)
    \/ Game(SG_Stop)
    \/ Game(SG_SpawnTimer)
    \/ Game(SG_Countdown)
    \/ Game(SG_Update)
    \/ \E target_id \in 1..MaxTargets : Game(SG_RemoveTarget(target_id))
    \/ Game(SG_Click)
    \/ Game(SG_FeedbackGone)
    \/ Game(SG_Destroyed)

SpecGame == InitApp /\ [][NextGame]_vars

\* C38 (as claimed): while the game is stopped it emits no target_miss and
\* no score_update event.
C38_SilentAfterStop ==
    [][(sg.started /\ ~sg.running)
          => /\ emitted'["target_miss"] = emitted["target_miss"]
             /\ emitted'["score_update"] = emitted["score_update"]]_vars

\* C39 (as claimed): a game that was started once emits game_end at most
\* once, and exactly once when it has been stopped.
C39_GameEndOnce ==
    /\ emitted["game_end"] <= 1
    /\ (sg.started /\ ~sg.running) => emitted["game_end"] = 1

\* C40 (as claimed): hits + misses never exceeds the targets spawned plus the
\* clicks that found no target.
C40_TargetCountedOnce ==
    sg.hits + sg.misses <= (sg.next - 1) + sg.other_clicks

====
